---------------------------- MODULE Spec2Model ----------------------------
(***************************************************************************)
(* Model of the file search of mcp-backend/server.js (EnhancedMCPServer):  *)
(* searchFilesAdvanced, searchInLocation, searchRecursive, readFile and    *)
(* getContentPreview, run over a file tree.  A call advances one await at  *)
(* a time.  Names and contents are sequences of one-character strings, so  *)
(* that toLowerCase, trim, split, includes, startsWith and path.extname    *)
(* are computed as the code computes them.  A path is the sequence of its  *)
(* components.                                                             *)
(***************************************************************************)
EXTENDS Integers, Sequences, FiniteSets, TLC

VARIABLES platform, capabilities, tools, searchLocations, emailFileTypes, calls, prev, ui, http

vars == <<platform, capabilities, tools, searchLocations, emailFileTypes, calls, prev, ui, http>>

\* the fields of the server that every call shares
config == <<capabilities, tools, searchLocations, emailFileTypes>>

(***************************************************************************)
(* Bounds of the model and constants of the program.                       *)
(***************************************************************************)
MaxRoots == 2
BulkFiles == 26
NumCalls == 2
MaxSends == 1
MaxTests == 1

MaxDepth == 3
MaxResults == 50
PreviewLimit == 3
AnalysisLimit == 10

Calls == 1..NumCalls
SeqCalls == {1}

None == <<>>
Some(x) == <<x>>

Min(a, b) == IF a < b THEN a ELSE b

\* values of JSON: a missing key reads as undefined
Undefined == [t |-> "undefined"]
Bool(b) == [t |-> "boolean", b |-> b]
Str(s) == [t |-> "string", s |-> s]
Field(object, key) == IF key \in DOMAIN object THEN object[key] ELSE Undefined
Truthy(v) ==
    CASE v.t = "boolean" -> v.b
      [] v.t = "string" -> v.s # <<>>
      [] OTHER -> FALSE
Arr(a) == [t |-> "array", a |-> a]
\* x?.join(...) throws when x is neither undefined, null nor an array
OptionalJoinThrows(v) == v.t \notin {"undefined", "null", "array"}

(***************************************************************************)
(* Characters and strings.                                                 *)
(***************************************************************************)
UpperLetters == <<"A","B","C","D","E","F","G","H","I","J","K","L","M",
                  "N","O","P","Q","R","S","T","U","V","W","X","Y","Z">>
LowerLetters == <<"a","b","c","d","e","f","g","h","i","j","k","l","m",
                  "n","o","p","q","r","s","t","u","v","w","x","y","z">>
Digits == <<"0","1","2","3","4","5","6","7","8","9">>

Whitespace == {" ", "\t", "\r", "\n"}

ToLowerChar(ch) ==
    IF \E i \in 1..26 : UpperLetters[i] = ch
    THEN LowerLetters[CHOOSE i \in 1..26 : UpperLetters[i] = ch]
    ELSE ch

\* String.prototype.toLowerCase
ToLowerCase(s) == [i \in 1..Len(s) |-> ToLowerChar(s[i])]

\* String.prototype.startsWith
StartsWith(s, p) == Len(p) <= Len(s) /\ SubSeq(s, 1, Len(p)) = p

\* String.prototype.includes
Includes(s, q) ==
    \E i \in 1..(Len(s) - Len(q) + 1) : SubSeq(s, i, i + Len(q) - 1) = q

\* String.prototype.trim
Trim(s) ==
    LET keep == {i \in 1..Len(s) : s[i] \notin Whitespace}
    IN  IF keep = {} THEN <<>>
        ELSE SubSeq(s, CHOOSE i \in keep : \A j \in keep : i <= j,
                       CHOOSE i \in keep : \A j \in keep : j <= i)

\* String.prototype.split('\n')
RECURSIVE SplitLines(_)
SplitLines(s) ==
    LET nl == {i \in 1..Len(s) : s[i] = "\n"}
    IN  IF nl = {} THEN <<s>>
        ELSE LET k == CHOOSE i \in nl : \A j \in nl : i <= j
             IN  <<SubSeq(s, 1, k - 1)>> \o SplitLines(SubSeq(s, k + 1, Len(s)))

\* path.extname of a base name
Extname(name) ==
    LET dots == {i \in 1..Len(name) : name[i] = "."}
    IN  IF dots = {} THEN <<>>
        ELSE LET k == CHOOSE i \in dots : \A j \in dots : j <= i
             IN  IF k = 1 THEN <<>> ELSE SubSeq(name, k, Len(name))

(***************************************************************************)
(* Names, extensions, contents and queries, spelled as characters.         *)
(***************************************************************************)
nHome == <<"h">>
nDocuments == <<"D","o","c","u","m","e","n","t","s">>
nDownloads == <<"D","o","w","n","l","o","a","d","s">>
nDesktop == <<"D","e","s","k","t","o","p">>
nLibrary == <<"L","i","b","r","a","r","y">>
nMail == <<"M","a","i","l">>
nDot == <<".">>
nAppData == <<"A","p","p","D","a","t","a">>
nOutlook == <<"O","u","t","l","o","o","k">>
nSub == <<"s","u","b">>
nNodeModules == <<"n","o","d","e","_","m","o","d","u","l","e","s">>
nVendor == <<"v","e","n","d","o","r">>
nVenv == <<"v","e","n","v">>
nPycache == <<"_","_","p","y","c","a","c","h","e","_","_">>
nGit == <<".","g","i","t">>
nBin == <<".","b","i","n">>
nLocked == <<"l","o","c","k","e","d">>
nNope == <<"n","o","p","e">>
nD1 == <<"d","1">>
nD2 == <<"d","2">>
nD3 == <<"d","3">>
nD4 == <<"d","4">>
nD5 == <<"d","5">>
nATxt == <<"a",".","t","x","t">>
nBMd == <<"b",".","m","d">>
nCTxt == <<"C",".","T","X","T">>
nXTxt == <<"x",".","t","x","t">>
nYTxt == <<"y",".","t","x","t">>
nQTxt == <<"q",".","t","x","t">>
nVTxt == <<"v",".","t","x","t">>
nZTxt == <<"z",".","t","x","t">>
nHidTxt == <<".","h","i","d",".","t","x","t">>
nBadTxt == <<"b","a","d",".","t","x","t">>
nLatTxt == <<"l","a","t",".","t","x","t">>
nNostatTxt == <<"n","o","s","t","a","t",".","t","x","t">>
nImgPng == <<"i","m","g",".","p","n","g">>
nLink == <<"l","i","n","k">>
nMultiTxt == <<"m","u","l","t","i",".","t","x","t">>
nF3 == <<"f","3",".","t","x","t">>
nF4 == <<"f","4",".","t","x","t">>
nF5 == <<"f","5",".","t","x","t">>
nReadme == <<"R","E","A","D","M","E">>
nEndTxt == <<"e","n","d",".","t","x","t">>

eEml == <<".","e","m","l">>
eMsg == <<".","m","s","g">>
eMbox == <<".","m","b","o","x">>
eTxt == <<".","t","x","t">>
eMd == <<".","m","d">>
eDocx == <<".","d","o","c","x">>
ePdf == <<".","p","d","f">>
eCsv == <<".","c","s","v">>
eJson == <<".","j","s","o","n">>
eXml == <<".","x","m","l">>
eTXT == <<".","T","X","T">>

tHelloWorld == <<"h","e","l","l","o"," ","w","o","r","l","d">>
tNothing == <<"n","o","t","h","i","n","g"," ","r","e","l","e","v","a","n","t">>
tHelloWORLD == <<"H","e","l","l","o"," ","W","O","R","L","D">>
tWorld == <<"w","o","r","l","d">>
tMulti == <<" ","W","o","r","l","d"," ","a"," ","\n","n","o","\n","b"," ","W","O","R","L","D","\r","\n","w","o","r","l","d","\n","c"," ","w","o","r","l","d">>
qWorld == <<"w","o","r","l","d">>
qWORLD == <<"W","O","R","L","D">>
qSpaceW == <<" ","W">>
qEmpty == <<>>
qNobody == <<"z","z">>

(***************************************************************************)
(* The file tree.  A node is a directory, a regular file or a symbolic     *)
(* link; readdir lists the children of a directory in the order of FS.     *)
(* utf8, latin1 and stat say whether fs.readFile(path, 'utf-8'),           *)
(* fs.readFile(path, 'latin1') and fs.stat(path) succeed on the node.      *)
(***************************************************************************)
Home == <<nHome>>
Documents == Home \o <<nDocuments>>
Downloads == Home \o <<nDownloads>>
Desktop == Home \o <<nDesktop>>
LibraryMail == Home \o <<nLibrary, nMail>>
OutlookData == Home \o <<nAppData, nOutlook>>
Cwd == Documents \o <<nSub>>
Nope == <<nNope>>

Dir(p) ==
    [path |-> p, kind |-> "dir", listable |-> TRUE, content |-> <<>>,
     utf8 |-> FALSE, latin1 |-> FALSE, stat |-> TRUE, mtime |-> 0]
LockedDir(p) == [Dir(p) EXCEPT !.listable = FALSE]
Link(p) == [Dir(p) EXCEPT !.kind = "link", !.listable = FALSE]
File(p, text, u, l, s, t) ==
    [path |-> p, kind |-> "file", listable |-> FALSE, content |-> text,
     utf8 |-> u, latin1 |-> l, stat |-> s, mtime |-> t]
Plain(p, text, t) == File(p, text, TRUE, TRUE, TRUE, t)

BulkName(i) == <<"m", Digits[(i \div 10) + 1], Digits[(i % 10) + 1]>> \o eEml

Chain1 == Documents \o <<nD1>>
Chain2 == Chain1 \o <<nD2>>
Chain3 == Chain2 \o <<nD3>>
Chain4 == Chain3 \o <<nD4>>
Chain5 == Chain4 \o <<nD5>>

FS ==
    << Dir(Home),
       Dir(Documents),
       Plain(Documents \o <<nATxt>>, tHelloWorld, 1),
       Dir(Documents \o <<nGit>>),
       Plain(Documents \o <<nGit, nYTxt>>, tWorld, 2),
       LockedDir(Documents \o <<nLocked>>),
       Plain(Documents \o <<nLocked, nZTxt>>, tWorld, 3),
       File(Documents \o <<nBadTxt>>, tWorld, FALSE, FALSE, TRUE, 4),
       File(Documents \o <<nLatTxt>>, tWorld, FALSE, TRUE, TRUE, 5),
       File(Documents \o <<nNostatTxt>>, tWorld, TRUE, TRUE, FALSE, 6),
       Plain(Documents \o <<nImgPng>>, tWorld, 7),
       Link(Documents \o <<nLink>>),
       Plain(Documents \o <<nHidTxt>>, tWorld, 8),
       Dir(Documents \o <<nNodeModules>>),
       Plain(Documents \o <<nNodeModules, nXTxt>>, tWorld, 9),
       Dir(Documents \o <<nNodeModules, nBin>>),
       Plain(Documents \o <<nNodeModules, nBin, nQTxt>>, tWorld, 10),
       Dir(Cwd),
       Plain(Cwd \o <<nBMd>>, tNothing, 11),
       Plain(Cwd \o <<nCTxt>>, tHelloWORLD, 12),
       Dir(Cwd \o <<nVendor>>),
       Plain(Cwd \o <<nVendor, nVTxt>>, tWorld, 13),
       Dir(Chain1),
       Dir(Chain2),
       Dir(Chain3),
       Plain(Chain3 \o <<nF3>>, tWorld, 14),
       Dir(Chain4),
       Plain(Chain4 \o <<nF4>>, tWorld, 15),
       Dir(Chain5),
       Plain(Chain5 \o <<nF5>>, tWorld, 16),
       Plain(Documents \o <<nMultiTxt>>, tMulti, 17),
       Plain(Documents \o <<nReadme>>, tWorld, 18),
       Plain(Documents \o <<nEndTxt>>, tWorld, 19),
       Dir(Desktop),
       Dir(Downloads) >>
    \o [i \in 1..BulkFiles |-> Plain(Downloads \o <<BulkName(i)>>, tWorld, 100 + i)]

Parent(p) == SubSeq(p, 1, Len(p) - 1)
Basename(p) == p[Len(p)]

Exists(p) == \E i \in 1..Len(FS) : FS[i].path = p
Node(p) == FS[CHOOSE i \in 1..Len(FS) : FS[i].path = p]

\* fs.readdir(dir, {withFileTypes: true}): whether it succeeds, and the entries
CanReaddir(p) == Exists(p) /\ Node(p).kind = "dir" /\ Node(p).listable
Dirent(n) ==
    [name |-> Basename(n.path), isDirectory |-> n.kind = "dir", isFile |-> n.kind = "file"]
Readdir(p) ==
    LET kids == SelectSeq(FS, LAMBDA n : Len(n.path) = Len(p) + 1 /\ Parent(n.path) = p)
    IN  [i \in 1..Len(kids) |-> Dirent(kids[i])]

\* fs.readFile(path, encoding) and fs.stat(path)
CanRead(p, encoding) ==
    /\ Exists(p)
    /\ Node(p).kind = "file"
    /\ IF encoding = "utf-8" THEN Node(p).utf8 ELSE Node(p).latin1
CanStat(p) == Exists(p) /\ Node(p).stat
FileSize(p) == Len(Node(p).content)

\* path.resolve of a location: '.' is the working directory of the process
Resolve(location) ==
    IF location # <<>> /\ location[1] = nDot THEN Cwd \o Tail(location) ELSE location

\* path.join(dir, item.name)
Join(dir, name) == dir \o <<name>>

(***************************************************************************)
(* The pure parts of EnhancedMCPServer.                                    *)
(***************************************************************************)
\* this.capabilities and this.tools as the constructor sets them
Capabilities ==
    [resources |-> TRUE, tools |-> TRUE, logging |-> TRUE,
     ai_integration |-> TRUE, outlook_integration |-> TRUE]
Tools ==
    << "read_file", "list_directory", "search_files_advanced", "get_system_info",
       "analyze_email_patterns_advanced", "search_outlook_emails", "generate_ai_email" >>

\* process.platform; the file tree is one of POSIX paths
Platforms == {"linux", "darwin"}

\* getSearchLocations(): '.', then the folders of the home directory
GetSearchLocations(p) ==
    <<  <<nDot>>, Documents, Downloads, Desktop >>
    \o (IF p = "win32" THEN <<Documents, OutlookData, Documents>>
        ELSE IF p = "darwin" THEN <<LibraryMail, Documents>>
        ELSE <<>>)

EmailFileTypes == <<eEml, eMsg, eMbox, eTxt, eMd, eDocx, ePdf, eCsv, eJson, eXml>>

\* customLocations || this.searchLocations
OrDefault(custom, default) == IF custom = None THEN default ELSE custom[1]

\* a call starts with the results array of a call still in progress
ResultsOfCallInProgress(cr) ==
    LET running == {d \in Calls : calls[d].pc \notin {"idle", "done", "returned"}}
    IN  IF running = {} THEN <<>> ELSE calls[CHOOSE d \in running : TRUE].results

\* const results = []
FreshResults(cr) == <<>>

\* a depth test that lets one more level through
DepthExceededLate(currentDepth, maxDepth) == currentDepth > maxDepth + 1

\* if (currentDepth > maxDepth) return
DepthExceeded(currentDepth, maxDepth) == currentDepth > maxDepth

\* a skip test that knows hidden names only
IsSkippedHiddenOnly(name) == StartsWith(name, <<".">>)

\* item.name.startsWith('.') || [...].includes(item.name)
IsSkipped(name) ==
    \/ StartsWith(name, <<".">>)
    \/ name \in {nNodeModules, nVendor, nVenv, nPycache}

\* path.extname(item.name).toLowerCase()
ExtOf(name) == ToLowerCase(Extname(name))

\* an extension test that accepts every file
ExtAllowedAny(fileTypes, ext) == TRUE

\* fileTypes.includes(ext)
ExtAllowed(fileTypes, ext) == \E i \in 1..Len(fileTypes) : fileTypes[i] = ext

\* a content test that does not lower-case the query
ContentMatchesRawQuery(content, query) == Includes(ToLowerCase(content), query)

\* content.content.toLowerCase().includes(query.toLowerCase())
ContentMatches(content, query) == Includes(ToLowerCase(content), ToLowerCase(query))

\* lines numbered by their array index
NumberedLinesFromZero(content) ==
    LET lines == SplitLines(content)
    IN  [i \in 1..Len(lines) |-> [line |-> Trim(lines[i]), number |-> i - 1]]

\* .map((line, index) => ({ line: line.trim(), number: index + 1 }))
NumberedLines(content) ==
    LET lines == SplitLines(content)
    IN  [i \in 1..Len(lines) |-> [line |-> Trim(lines[i]), number |-> i]]

\* getContentPreview(content, query)
GetContentPreview(content, query) ==
    LET matchingLines ==
            SelectSeq(NumberedLines(content),
                      LAMBDA l : Includes(ToLowerCase(l.line), ToLowerCase(query)))
    IN  SubSeq(matchingLines, 1, Min(PreviewLimit, Len(matchingLines)))

\* the record pushed by searchRecursive
MatchRecord(itemPath, ext, content, query) ==
    [file |-> itemPath, type |-> ext, size |-> FileSize(itemPath),
     modified |-> Node(itemPath).mtime,
     preview |-> GetContentPreview(content, query)]

\* the whole array, not sliced
SliceResultsAll(results) == results

\* results.slice(0, 50)
SliceResults(results) == SubSeq(results, 1, Min(MaxResults, Len(results)))

\* totalResults counts the records returned, after the slice
SearchReturnCountsReturned(cr) ==
    [success |-> TRUE, query |-> cr.query, searchLocations |-> cr.searchLocations,
     totalResults |-> Len(SliceResults(cr.results)), results |-> SliceResults(cr.results)]

\* the value searchFilesAdvanced returns
SearchReturn(cr) ==
    [success |-> TRUE, query |-> cr.query, searchLocations |-> cr.searchLocations,
     totalResults |-> Len(cr.results), results |-> SliceResults(cr.results)]

(***************************************************************************)
(* A call of searchFilesAdvanced: its arguments, its locals, the frames of *)
(* searchRecursive (innermost first), the readFile in progress and the     *)
(* value returned.  queryIsString, iterable and notStrings are the types   *)
(* of the arguments: whether query is a string, whether the locations can  *)
(* be iterated, and the indexes of the locations that are not strings.     *)
(* caller is the method that called searchFilesAdvanced; emailContents and *)
(* fileIdx are the locals of analyzeEmailPatternsAdvanced; out is the      *)
(* value returned by a tool other than the search.  inflight holds the     *)
(* operations of fs the call has issued that have not settled yet.         *)
(***************************************************************************)
NoRead == [path |-> <<>>, ext |-> <<>>, content |-> None, attempts |-> <<>>]

IdleCall ==
    [pc |-> "idle", query |-> <<>>, customLocations |-> None, customFileTypes |-> None,
     searchLocations |-> <<>>, fileTypes |-> <<>>, results |-> <<>>,
     locIdx |-> 0, resolvedLocation |-> <<>>, locResults |-> <<>>,
     stack |-> <<>>, rf |-> NoRead, ret |-> None,
     queryIsString |-> TRUE, iterable |-> TRUE, notStrings |-> {},
     caller |-> "executeTool", emailContents |-> <<>>, fileIdx |-> 1, out |-> None,
     inflight |-> {}, llm |-> FALSE]

\* an operation of fs on a path
FsOp(op, path, encoding) == [op |-> op, path |-> path, encoding |-> encoding]
Issue(cr, ops) == [cr EXCEPT !.inflight = @ \cup ops]
Settle(cr, op) == [cr EXCEPT !.inflight = @ \ {op}]

\* searchRecursive(dir, ..., currentDepth, maxDepth) up to its first await:
\* fs.readdir is issued unless the depth test returns
OpsOnEntry(dir, depth) ==
    IF DepthExceeded(depth, MaxDepth) THEN {} ELSE {FsOp("readdir", dir, "")}

\* the read and the stat are issued together
OpsOfReadFileWithStat(path) ==
    {FsOp("readFile", path, "utf-8"), FsOp("stat", path, "")}

\* readFile(filePath) up to its first await: fs.readFile(resolvedPath, 'utf-8')
OpsOfReadFile(path) == {FsOp("readFile", path, "utf-8")}

Frame(dir, depth) ==
    [dir |-> dir, depth |-> depth, entered |-> FALSE, items |-> <<>>, idx |-> 1]

RootCandidates ==
    { Documents, Documents \o <<nNodeModules>>, Downloads, Nope }

RECURSIVE SeqsUpTo(_, _)
SeqsUpTo(S, n) ==
    IF n = 0 THEN {<<>>}
    ELSE LET shorter == SeqsUpTo(S, n - 1)
         IN  shorter \cup {Append(s, x) : s \in shorter, x \in S}

Queries == {qWorld, qWORLD, qSpaceW, qEmpty}
LocationArgs == {None} \cup {Some(l) : l \in SeqsUpTo(RootCandidates, MaxRoots)}
FileTypeArgs == {None, Some(<<eTxt, eMd>>), Some(<<eTXT>>)}

\* the state of Home when it mounts (useState), in front of a backend that
\* is up, down or answering with errors; healthy, clicks and sends record
\* what has happened to the page since
InitialUI(version, backend) ==
    [version |-> version, backend |-> backend,
     healthy |-> backend = "up",
     messages |-> <<[type |-> "AI", content |-> "greeting", mcpMode |-> FALSE]>>,
     isTyping |-> FALSE, inputValue |-> <<>>, isLoading |-> FALSE,
     MCPEnabled |-> FALSE, MCPStatus |-> "disconnected",
     health |-> "idle", send |-> "idle", userMessage |-> <<>>,
     closure |-> [MCPEnabled |-> FALSE, MCPStatus |-> "disconnected"],
     request |-> None, ran |-> None,
     test |-> "idle", testCall |-> 0,
     clicks |-> "none", sends |-> 0, tests |-> 0]

\* the HTTP server between two requests, with the OPENAI_API_KEY of its
\* environment: unset, the placeholder of the code, or a key
IdleHttp(apiKey) ==
    [pc |-> "idle", apiKey |-> apiKey, route |-> "", body |-> [none |-> Undefined],
     status |-> 0, json |-> None, ran |-> <<>>, llm |-> {}]

Init ==
    /\ platform \in Platforms
    /\ capabilities = Capabilities
    /\ tools = Tools
    /\ searchLocations = GetSearchLocations(platform)
    /\ emailFileTypes = EmailFileTypes
    /\ calls = [c \in Calls |-> IdleCall]
    /\ prev = [c \in Calls |-> None]
    /\ ui = InitialUI("page.js", "up")
    /\ http = IdleHttp("key")

Top(cr) == cr.stack[1]

\* the results of a location are put in front of those found so far
PopFramePrepend(cr) ==
    IF Len(cr.stack) = 1
    THEN [cr EXCEPT !.stack = <<>>,
                    !.results = cr.locResults \o @,
                    !.locResults = <<>>,
                    !.resolvedLocation = <<>>,
                    !.locIdx = @ + 1,
                    !.pc = "loop"]
    ELSE [cr EXCEPT !.stack = Tail(@)]

\* searchRecursive returns; when it was the outermost call, searchInLocation
\* returns its results and searchFilesAdvanced pushes them and goes on
PopFrame(cr) ==
    IF Len(cr.stack) = 1
    THEN [cr EXCEPT !.stack = <<>>,
                    !.results = @ \o cr.locResults,
                    !.locResults = <<>>,
                    !.resolvedLocation = <<>>,
                    !.locIdx = @ + 1,
                    !.pc = "loop"]
    ELSE [cr EXCEPT !.stack = Tail(@)]

\* the readdir error ends the whole search with { success: false, error }
OnReaddirErrorAbort(cr) ==
    [cr EXCEPT !.pc = "done",
               !.stack = <<>>,
               !.ret = Some([success |-> FALSE, query |-> cr.query,
                             searchLocations |-> <<>>, totalResults |-> 0,
                             results |-> <<>>])]

\* the readdir error reaches the catch of searchInLocation, which returns []
OnReaddirErrorDropLocation(cr) ==
    [cr EXCEPT !.stack = <<>>,
               !.locResults = <<>>,
               !.resolvedLocation = <<>>,
               !.locIdx = @ + 1,
               !.pc = "loop"]

\* catch (error) { /* Skip directories that can't be accessed */ }
OnReaddirError(cr) == PopFrame(cr)

\* the locals of searchFilesAdvanced(query, customLocations, customFileTypes)
\* when it reaches its loop
Entered(cr, query, customLocations, customFileTypes) ==
    [IdleCall EXCEPT !.pc = "loop",
                     !.query = query,
                     !.customLocations = customLocations,
                     !.customFileTypes = customFileTypes,
                     !.searchLocations = OrDefault(customLocations, searchLocations),
                     !.fileTypes = OrDefault(customFileTypes, emailFileTypes),
                     !.results = FreshResults(cr),
                     !.locIdx = 1]

\* the locations in effect are stored in this.searchLocations
SharedLocationsOverwritten(shared, customLocations) == OrDefault(customLocations, shared)

\* this.searchLocations after searchFilesAdvanced has bound its locals: the
\* method assigns to const searchLocations, never to this.searchLocations
SharedLocationsAfter(shared, customLocations) == shared

\* the arguments a caller may pass: any, or those of the call that has just
\* returned when the caller repeats it
ArgChoices(cr) ==
    IF cr.pc = "done"
    THEN {<<cr.query, cr.customLocations, cr.customFileTypes>>}
    ELSE Queries \X LocationArgs \X FileTypeArgs

\* executeTool('search_files_advanced', args) -> searchFilesAdvanced(query, locations, fileTypes)
Call(c) ==
    /\ calls[c].pc \in {"idle", "done"}
    /\ \E args \in ArgChoices(calls[c]) :
         /\ calls' = [calls EXCEPT ![c] = Entered(calls[c], args[1], args[2], args[3])]
         /\ searchLocations' = SharedLocationsAfter(searchLocations, args[2])
    /\ prev' = [prev EXCEPT ![c] = calls[c].ret]
    /\ UNCHANGED <<platform, capabilities, tools, emailFileTypes, ui, http>>

\* res.json(result): the value has gone to the caller and the call is over
Respond(c) ==
    /\ calls[c].pc \in {"done", "returned"}
    /\ calls' = [calls EXCEPT ![c] = IdleCall]
    /\ prev' = [prev EXCEPT ![c] = None]
    /\ UNCHANGED <<platform, config, ui, http>>

\* for (const location of searchLocations): searchInLocation(location, ...)
StartLocation(c) ==
    LET cr == calls[c] IN
    /\ cr.pc = "loop"
    /\ cr.iterable
    /\ cr.locIdx <= Len(cr.searchLocations)
    /\ cr.locIdx \notin cr.notStrings
    /\ calls' = [calls EXCEPT ![c] =
           [Issue(cr, OpsOnEntry(Resolve(cr.searchLocations[cr.locIdx]), 0))
               EXCEPT !.pc = "walk",
                      !.locResults = <<>>,
                      !.resolvedLocation = Resolve(cr.searchLocations[cr.locIdx]),
                      !.stack = <<Frame(Resolve(cr.searchLocations[cr.locIdx]), 0)>>]]
    /\ UNCHANGED <<platform, config, prev, ui, http>>

\* the loop is over: return { success: true, ... }, to the caller of
\* executeTool or to analyzeEmailPatternsAdvanced
Return(c) ==
    LET cr == calls[c] IN
    /\ cr.pc = "loop"
    /\ cr.iterable
    /\ cr.locIdx > Len(cr.searchLocations)
    /\ calls' = [calls EXCEPT ![c] =
           [cr EXCEPT !.pc = IF cr.caller = "executeTool" THEN "done" ELSE "searched",
                      !.ret = Some(SearchReturn(cr))]]
    /\ UNCHANGED <<platform, config, prev, ui, http>>

\* searchRecursive entered past the depth limit: return
TooDeep(c) ==
    LET cr == calls[c] IN
    /\ cr.pc = "walk"
    /\ ~Top(cr).entered
    /\ DepthExceeded(Top(cr).depth, MaxDepth)
    /\ calls' = [calls EXCEPT ![c] = PopFrame(cr)]
    /\ UNCHANGED <<platform, config, prev, ui, http>>

\* await fs.readdir(dir, { withFileTypes: true }) succeeds
ReaddirOk(c) ==
    LET cr == calls[c] IN
    /\ cr.pc = "walk"
    /\ ~Top(cr).entered
    /\ ~DepthExceeded(Top(cr).depth, MaxDepth)
    /\ CanReaddir(Top(cr).dir)
    /\ calls' = [calls EXCEPT ![c] =
           [Settle(cr, FsOp("readdir", Top(cr).dir, ""))
               EXCEPT !.stack[1].entered = TRUE,
                      !.stack[1].items = Readdir(Top(cr).dir)]]
    /\ UNCHANGED <<platform, config, prev, ui, http>>

\* await fs.readdir(...) throws
ReaddirFails(c) ==
    LET cr == calls[c] IN
    /\ cr.pc = "walk"
    /\ ~Top(cr).entered
    /\ ~DepthExceeded(Top(cr).depth, MaxDepth)
    /\ ~CanReaddir(Top(cr).dir)
    /\ calls' = [calls EXCEPT ![c] =
           OnReaddirError(Settle(cr, FsOp("readdir", Top(cr).dir, "")))]
    /\ UNCHANGED <<platform, config, prev, ui, http>>

\* the loop over the items also ends once 50 matches have been recorded
HasItemUntilFull(cr) ==
    /\ cr.pc = "walk" /\ Top(cr).entered /\ Top(cr).idx <= Len(Top(cr).items)
    /\ Len(cr.results) + Len(cr.locResults) < MaxResults

\* for (const item of items): there is a next item
HasItem(cr) == cr.pc = "walk" /\ Top(cr).entered /\ Top(cr).idx <= Len(Top(cr).items)
Item(cr) == Top(cr).items[Top(cr).idx]
Advance(cr) == [cr EXCEPT !.stack[1].idx = @ + 1]

\* for (const item of items) is over: searchRecursive returns
EndOfItems(c) ==
    LET cr == calls[c] IN
    /\ cr.pc = "walk"
    /\ Top(cr).entered
    /\ ~HasItem(cr)
    /\ calls' = [calls EXCEPT ![c] = PopFrame(cr)]
    /\ UNCHANGED <<platform, config, prev, ui, http>>

\* hidden or excluded name: continue
SkipItem(c) ==
    LET cr == calls[c] IN
    /\ HasItem(cr)
    /\ IsSkipped(Item(cr).name)
    /\ calls' = [calls EXCEPT ![c] = Advance(cr)]
    /\ UNCHANGED <<platform, config, prev, ui, http>>

\* item.isDirectory(): searchRecursive(itemPath, ..., currentDepth + 1, maxDepth)
Descend(c) ==
    LET cr == calls[c] IN
    /\ HasItem(cr)
    /\ ~IsSkipped(Item(cr).name)
    /\ Item(cr).isDirectory
    /\ calls' = [calls EXCEPT ![c] =
           [Issue(Advance(cr),
                  OpsOnEntry(Join(Top(cr).dir, Item(cr).name), Top(cr).depth + 1))
               EXCEPT !.stack =
                <<Frame(Join(Top(cr).dir, Item(cr).name), Top(cr).depth + 1)>> \o @]]
    /\ UNCHANGED <<platform, config, prev, ui, http>>

\* neither a directory nor a regular file
OtherItem(c) ==
    LET cr == calls[c] IN
    /\ HasItem(cr)
    /\ ~IsSkipped(Item(cr).name)
    /\ ~Item(cr).isDirectory
    /\ ~Item(cr).isFile
    /\ calls' = [calls EXCEPT ![c] = Advance(cr)]
    /\ UNCHANGED <<platform, config, prev, ui, http>>

\* item.isFile() with an extension outside fileTypes
FilteredFile(c) ==
    LET cr == calls[c] IN
    /\ HasItem(cr)
    /\ ~IsSkipped(Item(cr).name)
    /\ ~Item(cr).isDirectory
    /\ Item(cr).isFile
    /\ ~ExtAllowed(cr.fileTypes, ExtOf(Item(cr).name))
    /\ calls' = [calls EXCEPT ![c] = Advance(cr)]
    /\ UNCHANGED <<platform, config, prev, ui, http>>

\* item.isFile() with an allowed extension: this.readFile(itemPath) starts
StartRead(c) ==
    LET cr == calls[c] IN
    /\ HasItem(cr)
    /\ ~IsSkipped(Item(cr).name)
    /\ ~Item(cr).isDirectory
    /\ Item(cr).isFile
    /\ ExtAllowed(cr.fileTypes, ExtOf(Item(cr).name))
    /\ calls' = [calls EXCEPT ![c] =
           [Issue(Advance(cr), OpsOfReadFile(Join(Top(cr).dir, Item(cr).name)))
                        EXCEPT !.pc = "readUtf8",
                               !.rf = [NoRead EXCEPT
                                          !.path = Join(Top(cr).dir, Item(cr).name),
                                          !.ext = ExtOf(Item(cr).name)]]]
    /\ UNCHANGED <<platform, config, prev, ui, http>>

\* a walker that leaves out the files an earlier identical call has returned
AfterReadUnlessSeen(cr, success) ==
    [cr EXCEPT !.pc = "walk",
               !.rf = NoRead,
               !.locResults =
                   IF /\ success
                      /\ ContentMatches(cr.rf.content[1], cr.query)
                      /\ \A c \in Calls : \A k \in 1..Len(prev[c]) :
                            \A i \in 1..Len(prev[c][k].results) :
                                prev[c][k].results[i].file # cr.rf.path
                   THEN Append(@, MatchRecord(cr.rf.path, cr.rf.ext,
                                              cr.rf.content[1], cr.query))
                   ELSE @]

\* readFile returned: searchRecursive pushes a record when the read succeeded
\* and the content contains the query; query.toLowerCase() of a query that
\* is not a string throws into catch (readError), which goes on with the walk
AfterRead(cr, success) ==
    [cr EXCEPT !.pc = "walk",
               !.rf = NoRead,
               !.locResults =
                   IF success /\ cr.queryIsString
                              /\ ContentMatches(cr.rf.content[1], cr.query)
                   THEN Append(@, MatchRecord(cr.rf.path, cr.rf.ext,
                                              cr.rf.content[1], cr.query))
                   ELSE @]

\* the read error escapes readFile and the walker and ends the directory
OnReadErrorLeaveDirectory(cr) == PopFrame([cr EXCEPT !.pc = "walk", !.rf = NoRead])

\* readFile: both encodings failed, return { success: false, error }
OnReadError(cr) == AfterRead(cr, FALSE)

\* the encodings readFile tries, in order
Encodings == <<"utf-8", "latin1">>

\* content = await fs.readFile(resolvedPath, 'utf-8')
ReadUtf8Ok(c) ==
    LET cr == calls[c] IN
    /\ cr.pc = "readUtf8"
    /\ CanRead(cr.rf.path, Encodings[1])
    /\ calls' = [calls EXCEPT ![c] =
           [Issue(Settle(cr, FsOp("readFile", cr.rf.path, Encodings[1])),
                  {FsOp("stat", cr.rf.path, "")})
               EXCEPT !.pc = "stat",
                      !.rf.attempts = Append(@, Encodings[1]),
                      !.rf.content = Some(Node(cr.rf.path).content)]]
    /\ UNCHANGED <<platform, config, prev, ui, http>>

\* catch (encodingError): the next await is the latin1 read
ReadUtf8Fails(c) ==
    LET cr == calls[c] IN
    /\ cr.pc = "readUtf8"
    /\ ~CanRead(cr.rf.path, Encodings[1])
    /\ calls' = [calls EXCEPT ![c] =
           [Issue(Settle(cr, FsOp("readFile", cr.rf.path, Encodings[1])),
                  {FsOp("readFile", cr.rf.path, Encodings[2])})
               EXCEPT !.pc = "readLatin1",
                      !.rf.attempts = Append(@, Encodings[1])]]
    /\ UNCHANGED <<platform, config, prev, ui, http>>

\* content = await fs.readFile(resolvedPath, 'latin1')
ReadLatin1Ok(c) ==
    LET cr == calls[c] IN
    /\ cr.pc = "readLatin1"
    /\ CanRead(cr.rf.path, Encodings[2])
    /\ calls' = [calls EXCEPT ![c] =
           [Issue(Settle(cr, FsOp("readFile", cr.rf.path, Encodings[2])),
                  {FsOp("stat", cr.rf.path, "")})
               EXCEPT !.pc = "stat",
                      !.rf.attempts = Append(@, Encodings[2]),
                      !.rf.content = Some(Node(cr.rf.path).content)]]
    /\ UNCHANGED <<platform, config, prev, ui, http>>

\* the latin1 read throws as well: the outer catch of readFile
ReadLatin1Fails(c) ==
    LET cr == calls[c] IN
    /\ cr.pc = "readLatin1"
    /\ ~CanRead(cr.rf.path, Encodings[2])
    /\ calls' = [calls EXCEPT ![c] =
           OnReadError([Settle(cr, FsOp("readFile", cr.rf.path, Encodings[2]))
                           EXCEPT !.rf.attempts = Append(@, Encodings[2])])]
    /\ UNCHANGED <<platform, config, prev, ui, http>>

\* const stats = await fs.stat(resolvedPath) succeeds: { success: true, ... }
StatOk(c) ==
    LET cr == calls[c] IN
    /\ cr.pc = "stat"
    /\ CanStat(cr.rf.path)
    /\ calls' = [calls EXCEPT ![c] =
           AfterRead(Settle(cr, FsOp("stat", cr.rf.path, "")), TRUE)]
    /\ UNCHANGED <<platform, config, prev, ui, http>>

\* fs.stat throws: { success: false, error }
StatFails(c) ==
    LET cr == calls[c] IN
    /\ cr.pc = "stat"
    /\ ~CanStat(cr.rf.path)
    /\ calls' = [calls EXCEPT ![c] =
           AfterRead(Settle(cr, FsOp("stat", cr.rf.path, "")), FALSE)]
    /\ UNCHANGED <<platform, config, prev, ui, http>>

\* the arguments of a call that break the signature: a query that is not a
\* string (undefined, a number), locations that cannot be iterated (a number,
\* an object), or a list holding a location that is not a string
ArgTypes ==
    [queryIsString : BOOLEAN, iterable : BOOLEAN, numbersAt : SUBSET {1, 2}]
InvalidArgs ==
    {a \in [query : {qWorld}, locations : {<<Documents>>, <<Documents, Downloads>>},
            types : ArgTypes] :
        /\ ~a.types.queryIsString \/ ~a.types.iterable \/ a.types.numbersAt # {}
        /\ a.types.numbersAt \subseteq 1..Len(a.locations)
        /\ ~a.types.iterable => a.types.numbersAt = {}}

\* searchFilesAdvanced(query, customLocations) called against its signature
CallInvalid(c) ==
    /\ calls[c].pc = "idle"
    /\ \E a \in InvalidArgs :
         calls' = [calls EXCEPT ![c] =
                [IdleCall EXCEPT !.pc = "loop",
                                 !.query = IF a.types.queryIsString THEN a.query ELSE <<>>,
                                 !.queryIsString = a.types.queryIsString,
                                 !.customLocations = Some(a.locations),
                                 !.iterable = a.types.iterable,
                                 !.notStrings = a.types.numbersAt,
                                 !.searchLocations =
                                     IF a.types.iterable
                                     THEN OrDefault(Some(a.locations), searchLocations)
                                     ELSE <<>>,
                                 !.fileTypes = OrDefault(None, emailFileTypes),
                                 !.results = FreshResults(calls[c]),
                                 !.locIdx = 1]]
    /\ prev' = [prev EXCEPT ![c] = calls[c].ret]
    /\ UNCHANGED <<platform, config, ui, http>>

\* for (const location of searchLocations) throws a TypeError: the outer
\* catch returns { success: false, error: error.message }
NotIterable(c) ==
    LET cr == calls[c] IN
    /\ cr.pc = "loop"
    /\ ~cr.iterable
    /\ calls' = [calls EXCEPT ![c] =
           [cr EXCEPT !.pc = "done",
                      !.ret = Some([success |-> FALSE, error |-> "TypeError"])]]
    /\ UNCHANGED <<platform, config, prev, ui, http>>

\* path.resolve(location) throws a TypeError: the catch of searchInLocation
\* returns [], and searchFilesAdvanced goes on with the next location
ResolveThrows(c) ==
    LET cr == calls[c] IN
    /\ cr.pc = "loop"
    /\ cr.iterable
    /\ cr.locIdx <= Len(cr.searchLocations)
    /\ cr.locIdx \in cr.notStrings
    /\ calls' = [calls EXCEPT ![c] = [cr EXCEPT !.locIdx = @ + 1]]
    /\ UNCHANGED <<platform, config, prev, ui, http>>

Step(c) ==
    \/ Call(c)
    \/ Respond(c)
    \/ StartLocation(c)
    \/ Return(c)
    \/ TooDeep(c)
    \/ ReaddirOk(c)
    \/ ReaddirFails(c)
    \/ EndOfItems(c)
    \/ SkipItem(c)
    \/ Descend(c)
    \/ OtherItem(c)
    \/ FilteredFile(c)
    \/ StartRead(c)
    \/ ReadUtf8Ok(c)
    \/ ReadUtf8Fails(c)
    \/ ReadLatin1Ok(c)
    \/ ReadLatin1Fails(c)
    \/ StatOk(c)
    \/ StatFails(c)

Next == \E c \in SeqCalls : Step(c)

Spec == Init /\ [][Next]_vars

\* the walk of a call, whatever its arguments
Walk(c) ==
    \/ StartLocation(c)
    \/ Return(c)
    \/ TooDeep(c)
    \/ ReaddirOk(c)
    \/ ReaddirFails(c)
    \/ EndOfItems(c)
    \/ SkipItem(c)
    \/ Descend(c)
    \/ OtherItem(c)
    \/ FilteredFile(c)
    \/ StartRead(c)
    \/ ReadUtf8Ok(c)
    \/ ReadUtf8Fails(c)
    \/ ReadLatin1Ok(c)
    \/ ReadLatin1Fails(c)
    \/ StatOk(c)
    \/ StatFails(c)

\* the server called with arguments that break the signature
NextArgs ==
    \E c \in SeqCalls :
        \/ CallInvalid(c)
        \/ NotIterable(c)
        \/ ResolveThrows(c)
        \/ Respond(c)
        \/ Walk(c)

SpecArgs == Init /\ [][NextArgs]_vars

(***************************************************************************)
(* The tools of executeTool, each run as the POST /api/mcp/execute handler *)
(* runs it, and analyzeEmailPatternsAdvanced after its search.             *)
(***************************************************************************)
\* the switch of executeTool, case after case
SwitchCases ==
    << <<"read_file", "readFile">>,
       <<"list_directory", "listDirectory">>,
       <<"search_files_advanced", "searchFilesAdvanced">>,
       <<"get_system_info", "getSystemInfo">>,
       <<"analyze_email_patterns_advanced", "analyzeEmailPatternsAdvanced">>,
       <<"search_outlook_emails", "searchOutlookEmails">>,
       <<"generate_ai_email", "generateAIEmail">>,
       <<"search_outlook_emails", IF platform = "darwin" THEN "searchMacOSOutlook"
                                  ELSE "searchOutlookEmails">> >>

\* the switch without its case 'generate_ai_email'
DispatchWithoutAIEmail(toolName) ==
    LET matching == {i \in 1..Len(SwitchCases) :
                        SwitchCases[i][1] = toolName /\ toolName # "generate_ai_email"}
    IN  IF matching = {} THEN "throw"
        ELSE SwitchCases[CHOOSE i \in matching : \A j \in matching : i <= j][2]

\* the switch taken as a table in which a later case replaces an earlier one
DispatchLastCase(toolName) ==
    LET matching == {i \in 1..Len(SwitchCases) : SwitchCases[i][1] = toolName}
    IN  IF matching = {} THEN "throw"
        ELSE SwitchCases[CHOOSE i \in matching : \A j \in matching : j <= i][2]

\* the method the switch runs for a tool name: that of the first case that
\* matches, the default (throw new Error) when none does
Dispatch(toolName) ==
    LET matching == {i \in 1..Len(SwitchCases) : SwitchCases[i][1] = toolName}
    IN  IF matching = {} THEN "throw"
        ELSE SwitchCases[CHOOSE i \in matching : \A j \in matching : i <= j][2]

\* readFile(filePath), all its awaits
ReadFileResult(p) ==
    IF (CanRead(p, Encodings[1]) \/ CanRead(p, Encodings[2])) /\ CanStat(p)
    THEN [success |-> TRUE, content |-> Node(p).content]
    ELSE [success |-> FALSE, error |-> "ENOENT"]

\* the values a method of the server may return to executeTool
HandlerReturns(handler, arg) ==
    CASE handler = "readFile" -> {ReadFileResult(Resolve(arg))}
      [] handler = "listDirectory" ->
            {IF CanReaddir(Resolve(arg))
             THEN [success |-> TRUE, path |-> Resolve(arg),
                   contents |-> SubSeq(Readdir(Resolve(arg)), 1,
                                       Min(100, Len(Readdir(Resolve(arg)))))]
             ELSE [success |-> FALSE, error |-> "ENOENT"]}
      [] handler = "getSystemInfo" ->
            {[success |-> TRUE,
              systemInfo |-> [platform |-> platform,
                              searchLocations |-> searchLocations,
                              supportedFileTypes |-> emailFileTypes]]}
      [] handler = "searchOutlookEmails" ->
            IF platform # "win32"
            THEN {[success |-> FALSE, error |-> "Outlook integration only available on Windows"]}
            ELSE {[success |-> TRUE, emails |-> <<>>],
                  [success |-> FALSE, error |-> "Outlook search failed"]}
      [] handler = "generateAIEmail" ->
            {[success |-> TRUE, emailDraft |-> "draft"],
             [success |-> FALSE, error |-> "AI generation failed"]}
      [] OTHER -> {[success |-> FALSE, error |-> "Unknown tool"]}

\* the calls of the other tools: a name and its argument
OtherToolCalls ==
    { [name |-> "read_file", arg |-> Documents \o <<nATxt>>],
      [name |-> "read_file", arg |-> Documents \o <<nBadTxt>>],
      [name |-> "list_directory", arg |-> <<nDot>>],
      [name |-> "list_directory", arg |-> Nope],
      [name |-> "get_system_info", arg |-> <<>>],
      [name |-> "search_outlook_emails", arg |-> qWorld],
      [name |-> "generate_ai_email", arg |-> qWorld],
      [name |-> "delete_file", arg |-> <<>>] }

ToolSearchArgs ==
    {qWorld, qSpaceW} \X {None, Some(<<Documents>>)} \X {None, Some(<<eTxt, eMd>>)}

ContactNames == {qWorld, qNobody}

\* executeTool('search_files_advanced', args)
SearchTool(c) ==
    /\ calls[c].pc = "idle"
    /\ \E args \in ToolSearchArgs :
         /\ calls' = [calls EXCEPT ![c] = Entered(calls[c], args[1], args[2], args[3])]
         /\ searchLocations' = SharedLocationsAfter(searchLocations, args[2])
    /\ UNCHANGED <<platform, capabilities, tools, emailFileTypes, prev, ui, http>>

\* executeTool('analyze_email_patterns_advanced', { contactName }):
\* searchResult = await this.searchFilesAdvanced(contactName)
AnalyzeTool(c) ==
    /\ calls[c].pc = "idle"
    /\ \E contactName \in ContactNames :
         calls' = [calls EXCEPT ![c] =
             [Entered(calls[c], contactName, None, None)
                 EXCEPT !.caller = "analyzeEmailPatternsAdvanced"]]
    /\ searchLocations' = SharedLocationsAfter(searchLocations, None)
    /\ UNCHANGED <<platform, capabilities, tools, emailFileTypes, prev, ui, http>>

\* executeTool of a tool that does not search
ExecuteOther(c) ==
    /\ calls[c].pc = "idle"
    /\ \E t \in OtherToolCalls :
         \E r \in HandlerReturns(Dispatch(t.name), t.arg) :
            calls' = [calls EXCEPT ![c] =
                [IdleCall EXCEPT !.pc = "returned",
                                 !.caller = Dispatch(t.name),
                                 !.out = Some(r)]]
    /\ UNCHANGED <<platform, config, prev, ui, http>>

\* generateMockEmailAnalysis(contactName)
GenerateMockEmailAnalysis(contactName) ==
    [success |-> TRUE,
     analysis |-> [contactName |-> contactName, foundFiles |-> 0, dataSource |-> "mock",
                   relationship |-> "Contact"]]

\* no search result to analyse: return this.generateMockEmailAnalysis(contactName)
AnalyzeMock(c) ==
    LET cr == calls[c] IN
    /\ cr.pc = "searched"
    /\ ~cr.ret[1].success \/ Len(cr.ret[1].results) = 0
    /\ calls' = [calls EXCEPT ![c] =
           [cr EXCEPT !.pc = "returned",
                      !.out = Some(GenerateMockEmailAnalysis(cr.query))]]
    /\ UNCHANGED <<platform, config, prev, ui, http>>

\* searchResult.results.slice(0, 10)
FirstTen(results) == SubSeq(results, 1, Min(AnalysisLimit, Len(results)))

\* for (const result of searchResult.results.slice(0, 10)): readFile(result.file)
AnalyzeReadFile(c) ==
    LET cr == calls[c]
        firstTen == FirstTen(cr.ret[1].results)
    IN  /\ cr.pc = "searched"
        /\ cr.ret[1].success /\ Len(cr.ret[1].results) # 0
        /\ cr.fileIdx <= Len(firstTen)
        /\ LET result == firstTen[cr.fileIdx]
               fileContent == ReadFileResult(Resolve(result.file))
           IN  calls' = [calls EXCEPT ![c] =
                   [cr EXCEPT !.fileIdx = @ + 1,
                              !.emailContents =
                                  IF fileContent.success
                                  THEN Append(@, [file |-> result.file,
                                                  content |-> fileContent.content,
                                                  modified |-> result.modified])
                                  ELSE @]]
        /\ UNCHANGED <<platform, config, prev, ui, http>>

\* extractPatternsManually(emailContents, contactName)
ExtractPatternsManually(emailContents, contactName) ==
    [relationship |-> "Contact", communicationStyle |-> "Professional"]

\* what the chat completion answers to analyzeWithAI: an error, a text that
\* is not JSON, or a JSON object, with the keys asked for or with others
AIReplies ==
    { [kind |-> "error", object |-> [relationship |-> "Contact"]],
      [kind |-> "text", object |-> [relationship |-> "Contact"]],
      [kind |-> "json", object |-> [relationship |-> "Colleague", tone |-> "Friendly"]],
      [kind |-> "json", object |-> [relationship |-> "Colleague", analyzedFiles |-> 25]],
      [kind |-> "json", object |-> [relationship |-> "Manager",
                                    commonTopics |-> Arr(<<"budget">>)]],
      [kind |-> "json", object |-> [relationship |-> "Manager",
                                    commonTopics |-> Str(<<"b","u","d","g","e","t">>)]] }

\* analyzeWithAI(contactName, emailContents)
AnalyzeWithAIResult(reply, contactName, emailContents) ==
    IF reply.kind = "json" THEN reply.object
    ELSE ExtractPatternsManually(emailContents, contactName)

\* { ...a, ...b }: the keys of b override those of a
Spread(a, b) ==
    [k \in DOMAIN a \cup DOMAIN b |-> IF k \in DOMAIN b THEN b[k] ELSE a[k]]

\* aiAnalysis = await this.analyzeWithAI(...); return { success: true, analysis }
AnalyzeWithAI(c) ==
    LET cr == calls[c] IN
    /\ cr.pc = "searched"
    /\ cr.ret[1].success /\ Len(cr.ret[1].results) # 0
    /\ cr.fileIdx > Len(FirstTen(cr.ret[1].results))
    /\ \E reply \in AIReplies :
         calls' = [calls EXCEPT ![c] =
             [cr EXCEPT !.pc = "returned",
                        !.llm = TRUE,
                        !.out = Some(
                            [success |-> TRUE,
                             analysis |->
                                 Spread([contactName |-> cr.query,
                                         foundFiles |-> Len(cr.ret[1].results),
                                         analyzedFiles |-> Len(cr.emailContents),
                                         searchLocations |-> cr.ret[1].searchLocations,
                                         aiGenerated |-> TRUE],
                                        AnalyzeWithAIResult(reply, cr.query,
                                                            cr.emailContents))])]]
    /\ UNCHANGED <<platform, config, prev, ui, http>>

\* res.json(result): the value has gone to the caller, who may call again
RespondKeeping(c) ==
    /\ calls[c].pc \in {"done", "returned"}
    /\ calls' = [calls EXCEPT ![c] = IdleCall]
    /\ prev' = [prev EXCEPT ![c] =
                   IF calls[c].pc = "done" THEN calls[c].ret ELSE calls[c].out]
    /\ UNCHANGED <<platform, config, ui, http>>

\* the server running one tool after another
NextTools ==
    \E c \in SeqCalls :
        \/ SearchTool(c)
        \/ AnalyzeTool(c)
        \/ ExecuteOther(c)
        \/ AnalyzeMock(c)
        \/ AnalyzeReadFile(c)
        \/ AnalyzeWithAI(c)
        \/ RespondKeeping(c)
        \/ Walk(c)

SpecTools == Init /\ [][NextTools]_vars

(***************************************************************************)
(* Two requests served at once: the calls of searchFilesAdvanced on the    *)
(* one mcpServer interleave at their awaits.                               *)
(***************************************************************************)
ConcCalls == {1, 2}

ConcArgs ==
    { <<qWorld, Some(<<Documents>>), None>>,
      <<qEmpty, Some(<<Cwd>>), Some(<<eTxt, eMd>>)>> }

\* POST /api/mcp/execute while another request is being served
CallConcurrently(c) ==
    /\ calls[c].pc = "idle"
    /\ \E args \in ConcArgs :
         /\ calls' = [calls EXCEPT ![c] = Entered(calls[c], args[1], args[2], args[3])]
         /\ searchLocations' = SharedLocationsAfter(searchLocations, args[2])
    /\ UNCHANGED <<platform, capabilities, tools, emailFileTypes, prev, ui, http>>

NextConc ==
    \E c \in ConcCalls :
        \/ CallConcurrently(c)
        \/ Walk(c)

SpecConc == Init /\ [][NextConc]_vars

(***************************************************************************)
(* The chat page: src/mcp-frontend/src/app/page.js and its older version   *)
(* src/unnamed/part_000, in front of the backend's HTTP endpoints.         *)
(***************************************************************************)
Versions == {"page.js", "part_000"}
\* what listens on port 3001: the backend of this repository, nothing, the
\* backend answering with errors, or another server with JSON of its own
Backends == {"up", "down", "failing", "other"}

\* the JSX prop that carries the handler of the Refresh, toggle, test and
\* Send buttons; React attaches a click handler for onClick only
ButtonProp(version) == IF version = "page.js" THEN "oncClick" ELSE "onClick"
Clickable(version) == ButtonProp(version) = "onClick"

\* \w and \s of the request patterns
IsWordChar(ch) ==
    \/ \E i \in 1..26 : LowerLetters[i] = ToLowerChar(ch)
    \/ \E i \in 1..10 : Digits[i] = ch
    \/ ch = "_"
IsSpace(ch) == ch \in Whitespace

\* the keyword k stands at position i of s (the patterns carry the i flag)
Occurs(s, k, i) ==
    /\ i + Len(k) - 1 <= Len(s)
    /\ \A j \in 1..Len(k) : ToLowerChar(s[i + j - 1]) = k[j]

\* k1.*k2.* ... from position from on: the position after the earliest way
\* to find the keywords in order, 0 when there is none
RECURSIVE EndOfChain(_, _, _)
EndOfChain(s, ks, from) ==
    IF ks = <<>> THEN from
    ELSE LET at == {i \in from..Len(s) : Occurs(s, ks[1], i)}
         IN  IF at = {} THEN 0
             ELSE EndOfChain(s, Tail(ks),
                             (CHOOSE i \in at : \A j \in at : i <= j) + Len(ks[1]))

\* match[1] of /k1.*k2.*k3\s+(\w+)/i: the greedy .* put the last keyword at
\* its last occurrence that is followed by white space and a word
CaptureAfter(s, ks) ==
    LET last == ks[Len(ks)]
        from == EndOfChain(s, SubSeq(ks, 1, Len(ks) - 1), 1)
        WordAt(e) == CHOOSE p \in e..(Len(s) + 1) :
                        /\ p = Len(s) + 1 \/ ~IsSpace(s[p])
                        /\ \A q \in e..(p - 1) : IsSpace(s[q])
        tails == {a \in from..Len(s) :
                    /\ Occurs(s, last, a)
                    /\ a + Len(last) <= Len(s)
                    /\ IsSpace(s[a + Len(last)])
                    /\ WordAt(a + Len(last)) <= Len(s)
                    /\ IsWordChar(s[WordAt(a + Len(last))])}
        start == WordAt((CHOOSE a \in tails : \A b \in tails : b <= a) + Len(last))
        end == CHOOSE e \in start..Len(s) :
                  /\ \A q \in start..e : IsWordChar(s[q])
                  /\ e = Len(s) \/ ~IsWordChar(s[e + 1])
    IN  IF from = 0 THEN None
        ELSE IF tails = {} THEN None
        ELSE Some(SubSeq(s, start, end))

\* match[1] of /email.*(\w+).*about/i: the greedy .* leave the group the
\* one word character that is the last before the last "about"
CaptureBeforeAbout(s, ks) ==
    LET from == EndOfChain(s, ks, 1)
        abouts == {a \in from..Len(s) : Occurs(s, <<"a","b","o","u","t">>, a)}
        a == CHOOSE x \in abouts : \A y \in abouts : y <= x
        ws == {p \in from..(a - 1) : IsWordChar(s[p])}
    IN  IF from = 0 THEN None
        ELSE IF abouts = {} THEN None
        ELSE IF ws = {} THEN None
        ELSE Some(<<s[CHOOSE p \in ws : \A q \in ws : q <= p]>>)

EmailPatterns(version) ==
    LET all == <<
      [kind |-> "after", keys |-> <<<<"d","r","a","f","t">>, <<"e","m","a","i","l">>, <<"f","o","r">>>>],
      [kind |-> "after", keys |-> <<<<"w","r","i","t","e">>, <<"e","m","a","i","l">>, <<"t","o">>>>],
      [kind |-> "about", keys |-> <<<<"e","m","a","i","l">>>>],
      [kind |-> "after", keys |-> <<<<"r","e","s","p","o","n","d">>, <<"t","o">>>>],
      [kind |-> "after", keys |-> <<<<"s","e","n","d">>, <<"e","m","a","i","l">>, <<"t","o">>>>],
      [kind |-> "after", keys |-> <<<<"c","o","m","p","o","s","e">>, <<"e","m","a","i","l">>, <<"f","o","r">>>>],
      [kind |-> "after", keys |-> <<<<"c","r","e","a","t","e">>, <<"e","m","a","i","l">>, <<"t","o">>>>],
      [kind |-> "after", keys |-> <<<<"h","e","l","p">>, <<"m","e">>, <<"e","m","a","i","l">>>>] >>
    IN  IF version = "page.js" THEN all ELSE SubSeq(all, 1, 4)

parseEmailRequest(version, message) ==
    LET emailPatterns == EmailPatterns(version)
        Match(i) == IF emailPatterns[i].kind = "after"
                    THEN CaptureAfter(message, emailPatterns[i].keys)
                    ELSE CaptureBeforeAbout(message, emailPatterns[i].keys)
        hits == {i \in 1..Len(emailPatterns) : Match(i) # None}
    IN  IF hits = {} THEN None
        ELSE Some([recipient |-> ToLowerCase(Match(CHOOSE i \in hits : \A j \in hits : i <= j)[1]),
                   originalMessage |-> message])

\* what the user types into the input box
UserInputs ==
    { <<>>,
      <<" "," ">>,
      <<"h","e","l","l","o">>,
      <<"d","r","a","f","t"," ","a","n"," ","e","m","a","i","l"," ","f","o","r"," ","S","a","r","a","h">>,
      <<"e","m","a","i","l"," ","b","o","b"," ","a","b","o","u","t"," ","i","t">>,
      <<"s","e","n","d"," ","e","m","a","i","l"," ","t","o"," ","B","o","b">> }

checkMCPConnection(backend) ==
    CASE backend \in {"up", "other"} -> "connected"
      [] backend = "failing" -> "error"
      [] OTHER -> "disconnected"

\* the Refresh button
ClickRefresh ==
    /\ ui' = [ui EXCEPT !.clicks = IF @ = "none" THEN "Refresh" ELSE "other",
                        !.health = IF Clickable(ui.version) THEN "pending" ELSE @]
    /\ UNCHANGED <<platform, config, calls, prev, http>>

\* fetch of /api/health settles and checkMCPConnection sets the status
HealthResponds ==
    /\ ui.health = "pending"
    /\ ui' = [ui EXCEPT !.health = "idle",
                        !.MCPStatus = checkMCPConnection(ui.backend)]
    /\ UNCHANGED <<platform, config, calls, prev, http>>

\* the MCP toggle, disabled unless the status is "connected"
ClickToggle ==
    /\ ui' = [ui EXCEPT !.clicks = IF @ = "Refresh" /\ ui.health = "idle"
                                   THEN "Refresh, toggle" ELSE "other",
                        !.MCPEnabled = IF Clickable(ui.version) /\ ui.MCPStatus = "connected"
                                       THEN ~@ ELSE @]
    /\ UNCHANGED <<platform, config, calls, prev, http>>

\* the backend process stops, starts or begins to answer with errors
BackendChanges ==
    /\ \E b \in Backends \ {ui.backend} :
          ui' = [ui EXCEPT !.backend = b, !.healthy = FALSE]
    /\ UNCHANGED <<platform, config, calls, prev, http>>

\* onChange of the input box, disabled while isLoading
TypeInput ==
    /\ ~ui.isLoading
    /\ \E text \in UserInputs : ui' = [ui EXCEPT !.inputValue = text]
    /\ UNCHANGED <<platform, config, calls, prev, http>>

\* handleSendMessage up to its first await (the 1500 ms timer); the values
\* of MCPEnabled and MCPStatus of this render stay with the call
handleSendMessage(u) ==
    IF Trim(u.inputValue) = <<>> \/ u.isLoading THEN u
    ELSE [u EXCEPT !.userMessage = Trim(u.inputValue),
                   !.inputValue = <<>>,
                   !.isLoading = TRUE,
                   !.messages = Append(@, [type |-> "user", content |-> "text"]),
                   !.isTyping = TRUE,
                   !.closure = [MCPEnabled |-> u.MCPEnabled, MCPStatus |-> u.MCPStatus],
                   !.send = "delay",
                   !.request = None,
                   !.ran = None,
                   !.sends = @ + 1]

\* handleKeyPress: Enter in the input box, which is disabled while isLoading
PressEnter ==
    /\ ~ui.isLoading
    /\ ui.sends < MaxSends
    /\ ui' = handleSendMessage(ui)
    /\ UNCHANGED <<platform, config, calls, prev, http>>

\* the Send button, disabled while isLoading or while the input is blank
ClickSend ==
    /\ ui.sends < MaxSends
    /\ ui' = IF Clickable(ui.version) /\ ~(ui.isLoading \/ Trim(ui.inputValue) = <<>>)
             THEN handleSendMessage(ui) ELSE ui
    /\ UNCHANGED <<platform, config, calls, prev, http>>

\* the end of handleSendMessage, once generateResponse has returned
Replied(u, response) ==
    [u EXCEPT !.isTyping = FALSE,
              !.messages = Append(@, [type |-> "ai", content |-> response,
                                      mcpMode |-> u.closure.MCPEnabled]),
              !.isLoading = FALSE,
              !.send = "idle"]

\* the request of the MCP-enabled path
RequestWithMCP(version, emailRequest, closure) ==
    [path |-> "mcp", origin |-> "http://localhost:3001", route |-> "/api/email/draft",
     body |-> IF version = "page.js"
              THEN [recipient |-> Str(emailRequest.recipient),
                    mcpEnabled |-> Bool(TRUE),
                    useAI |-> Bool(TRUE),
                    customMessage |-> Str(emailRequest.originalMessage)]
              ELSE [recipient |-> Str(emailRequest.recipient),
                    MCPEnabled |-> Bool(closure.MCPEnabled)]]

\* the request of the context-free path, sent to the page's own origin
RequestWithoutMCP(version, emailRequest) ==
    IF version = "page.js"
    THEN [path |-> "plain", origin |-> "", route |-> "/api/email/draft",
          body |-> [recipient |-> Str(emailRequest.recipient),
                    mcpEnabled |-> Bool(FALSE),
                    useAI |-> Bool(TRUE)]]
    ELSE [path |-> "plain", origin |-> "", route |-> "/api/ai/generate-simple-email",
          body |-> [recipient |-> Str(emailRequest.recipient),
                    originalMessage |-> Str(emailRequest.originalMessage),
                    useBasicPrompt |-> Bool(TRUE)]]

\* the timer fires and generateResponse runs up to its fetch, or to its end
\* when the message is no email request
generateResponse ==
    /\ ui.send = "delay"
    /\ LET emailRequest == parseEmailRequest(ui.version, ui.userMessage)
           mcp == ui.closure.MCPEnabled /\ ui.closure.MCPStatus = "connected"
       IN  ui' = IF emailRequest = None
                 THEN Replied(ui, IF mcp THEN "hint with context" ELSE "hint")
                 ELSE [ui EXCEPT !.send = "fetch",
                                 !.request = Some(IF mcp
                                                  THEN RequestWithMCP(ui.version, emailRequest[1], ui.closure)
                                                  ELSE RequestWithoutMCP(ui.version, emailRequest[1]))]
    /\ UNCHANGED <<platform, config, calls, prev, http>>

\* POST /api/email/draft of the backend: the responses it can give to a body
DraftEndpoint(body) ==
    LET recipient == Field(body, "recipient")
        mcpEnabled == Field(body, "mcpEnabled")
        useAI == IF Field(body, "useAI") = Undefined THEN Bool(TRUE) ELSE Field(body, "useAI")
    IN  IF ~Truthy(recipient)
        THEN {[status |-> 400, ran |-> None, context |-> "none", aiGenerated |-> FALSE,
               commonTopics |-> Undefined, keyThemes |-> Undefined]}
        ELSE IF Truthy(mcpEnabled)
        THEN {[status |-> 200, ran |-> Some("analyze_email_patterns_advanced"),
               context |-> c, aiGenerated |-> a,
               commonTopics |-> IF c = "analysis" THEN Arr(<<"budget">>) ELSE Undefined,
               keyThemes |-> Undefined] :
                 <<c, a>> \in {<<"analysis", FALSE>>, <<"error", FALSE>>}
                              \cup (IF Truthy(useAI) THEN {<<"analysis", TRUE>>} ELSE {})}
             \cup \* generateFallbackEmail throws on the analysis: the catch answers 500
                  {[status |-> 500, ran |-> Some("analyze_email_patterns_advanced"),
                    context |-> "none", aiGenerated |-> FALSE,
                    commonTopics |-> Undefined, keyThemes |-> Undefined]}
        ELSE {[status |-> 200, ran |-> None, context |-> c, aiGenerated |-> a,
               commonTopics |-> Undefined, keyThemes |-> Undefined] :
                 <<c, a>> \in {<<"note", FALSE>>}
                              \cup (IF Truthy(useAI) THEN {<<"note", TRUE>>, <<"none", FALSE>>} ELSE {})}

\* what response.json() gives when another server answers on port 3001: a
\* context whose commonTopics or keyThemes is an array or a string (with
\* keyThemes comes a truthy aiEnhanced)
OtherServerResponses ==
    {[status |-> 200, ran |-> None, context |-> "analysis", aiGenerated |-> FALSE,
      commonTopics |-> c, keyThemes |-> k] :
        <<c, k>> \in {<<Arr(<<"budget">>), Undefined>>,
                      <<Str(<<"b", "u", "d", "g", "e", "t">>), Undefined>>,
                      <<Arr(<<"budget">>), Str(<<"b", "u", "d", "g", "e", "t">>)>>}}

\* the responses fetch can settle with: the backend on port 3001, or the
\* page's own origin for a relative URL
Responses(request, backend) ==
    LET NoContext(status, aiGenerated) ==
            [status |-> status, ran |-> None, context |-> "none", aiGenerated |-> aiGenerated,
             commonTopics |-> Undefined, keyThemes |-> Undefined]
    IN  IF request.origin = "http://localhost:3001"
        THEN CASE backend = "up" -> DraftEndpoint(request.body)
               [] backend = "failing" -> {NoContext(500, FALSE)}
               [] backend = "other" -> OtherServerResponses
               [] OTHER -> {NoContext(0, FALSE)}
        ELSE {NoContext(404, FALSE), NoContext(200, TRUE)}

\* generateResponse reads emailResult.context.commonTopics?.join(", ") and,
\* in page.js, emailResult.context.keyThemes.join(", ") outside any try
GenerateResponseThrows(version, path, response) ==
    /\ path = "mcp"
    /\ response.status = 200
    /\ response.context # "none"
    /\ \/ OptionalJoinThrows(response.commonTopics)
       \/ version = "page.js" /\ Truthy(response.keyThemes)
                              /\ response.keyThemes.t # "array"

\* the text generateResponse makes of the result of its fetch
ResponseText(path, response) ==
    IF path = "mcp"
    THEN IF response.status # 200 THEN "Error connecting to MCP server"
         ELSE "MCP Analysis Complete"
    ELSE IF response.status # 200 THEN "AI Generation Failed"
         ELSE "AI-Generated Email (No Context)"

\* the fetch of generateResponse settles and handleSendMessage finishes
FetchSettles ==
    /\ ui.send = "fetch"
    /\ \E response \in Responses(ui.request[1], ui.backend) :
          ui' = IF GenerateResponseThrows(ui.version, ui.request[1].path, response)
                THEN \* the promise of handleSendMessage rejects; nothing catches it
                     [ui EXCEPT !.send = "thrown", !.ran = response.ran]
                ELSE [Replied(ui, ResponseText(ui.request[1].path, response))
                         EXCEPT !.ran = response.ran]
    /\ UNCHANGED <<platform, config, calls, prev, http>>

\* the calls testMCPTools awaits one after the other
TestCalls(version) ==
    IF version = "page.js"
    THEN <<"get_system_info", "list_directory", "search_outlook_emails",
           "search_files_advanced", "generateEmailWithEnhancedMCP">>
    ELSE <<"get_system_info", "list_directory", "search_files">>

\* what a call of the test resolves to: callMCPTool and the email request
\* turn every failure into an object with an error; "incomplete" is a
\* success without the field the test reads next
TestResults(backend, tool) ==
    CASE backend = "up" ->
            IF tool = "generateEmailWithEnhancedMCP" \/ Dispatch(tool) # "throw"
            THEN {"complete", "failed"} ELSE {"failed"}
      [] backend = "other" -> {"complete", "incomplete", "failed"}
      [] OTHER -> {"failed"}

\* result.systemInfo.platform in both versions, result.contents.length and
\* result.results.length in part_000 are read without ?. once success is true
TestThrows(version, tool, result) ==
    /\ result = "incomplete"
    /\ \/ tool = "get_system_info"
       \/ version = "part_000" /\ tool \in {"list_directory", "search_files"}

\* the Test MCP Tools button, rendered while the status is "connected" and
\* disabled while isLoading: testMCPTools up to its first await
ClickTest ==
    /\ ui.tests < MaxTests
    /\ ui' = IF Clickable(ui.version) /\ ui.MCPStatus = "connected" /\ ~ui.isLoading
             THEN [ui EXCEPT !.isLoading = TRUE,
                             !.isTyping = TRUE,
                             !.test = "call",
                             !.testCall = 1,
                             !.tests = @ + 1]
             ELSE ui
    /\ UNCHANGED <<platform, config, calls, prev, http>>

\* one awaited call of testMCPTools settles; after the last one the results
\* are appended as an AI message with mcpMode true
TestCallSettles ==
    /\ ui.test = "call"
    /\ LET tool == TestCalls(ui.version)[ui.testCall] IN
       \E result \in TestResults(ui.backend, tool) :
          ui' = IF TestThrows(ui.version, tool, result)
                THEN [ui EXCEPT !.test = "thrown"]
                ELSE IF ui.testCall < Len(TestCalls(ui.version))
                THEN [ui EXCEPT !.testCall = @ + 1]
                ELSE [ui EXCEPT !.isTyping = FALSE,
                                !.messages = Append(@, [type |-> "ai", content |-> "test results",
                                                        mcpMode |-> TRUE]),
                                !.isLoading = FALSE,
                                !.test = "idle",
                                !.testCall = 0]
    /\ UNCHANGED <<platform, config, calls, prev, http>>

NextUI ==
    \/ ClickTest
    \/ TestCallSettles
    \/ ClickRefresh
    \/ HealthResponds
    \/ ClickToggle
    \/ BackendChanges
    \/ TypeInput
    \/ PressEnter
    \/ ClickSend
    \/ generateResponse
    \/ FetchSettles

InitUI ==
    /\ platform = "linux"
    /\ capabilities = Capabilities
    /\ tools = Tools
    /\ searchLocations = GetSearchLocations(platform)
    /\ emailFileTypes = EmailFileTypes
    /\ calls = [c \in Calls |-> IdleCall]
    /\ prev = [c \in Calls |-> None]
    /\ ui \in {InitialUI(version, backend) : version \in Versions, backend \in Backends}
    /\ http = IdleHttp("key")

SpecUI == InitUI /\ [][NextUI]_vars

(***************************************************************************)
(* The HTTP endpoints of the backend: the POST routes of server.js, one    *)
(* request at a time, on the three platforms and with the three states of  *)
(* OPENAI_API_KEY.                                                         *)
(***************************************************************************)
HttpPlatforms == {"linux", "darwin", "win32"}
ApiKeys == {"unset", "placeholder", "key"}

\* process.env.OPENAI_API_KEY && process.env.OPENAI_API_KEY !== 'your-api-key-here'
KeyConfigured(apiKey) == apiKey = "key"

ToolRoutes ==
    {"/api/mcp/execute", "/api/outlook/search", "/api/files/search", "/api/ai/generate-email"}
Routes == ToolRoutes \cup {"/api/ai/generate-simple-email", "/api/email/draft"}

\* the body field each handler tests first
RequiredField(route) ==
    CASE route = "/api/mcp/execute" -> "tool"
      [] route = "/api/outlook/search" -> "contactName"
      [] route = "/api/files/search" -> "query"
      [] OTHER -> "recipient"

\* the test of the required field is passed by any value that is not undefined
ValidatesPresence(route, body) == Field(body, RequiredField(route)).t # "undefined"

\* if (!field) return res.status(400)...: the test the handler's field has to pass
Validates(route, body) == Truthy(Field(body, RequiredField(route)))

\* a body that holds none of the fields the handlers read
NoField == [other |-> Str(<<"x">>)]

\* the JSON bodies posted to a route; a tool name is a string of one piece
Bodies(route) ==
    CASE route = "/api/mcp/execute" ->
            {NoField, [tool |-> Str(<<>>)],
             [tool |-> Str(<<"search_files_advanced">>), arg |-> qWorld],
             [tool |-> Str(<<"analyze_email_patterns_advanced">>), arg |-> qWorld]}
            \cup {[tool |-> Str(<<t.name>>), arg |-> t.arg] : t \in OtherToolCalls}
      [] route = "/api/outlook/search" ->
            {NoField, [contactName |-> Str(<<>>)], [contactName |-> Str(qWorld)]}
      [] route = "/api/files/search" ->
            {NoField, [query |-> Str(<<>>)],
             [query |-> Str(qWorld), locations |-> <<Documents>>, fileTypes |-> <<eTxt, eMd>>]}
      [] route = "/api/ai/generate-email" ->
            {NoField, [recipient |-> Str(<<>>)], [recipient |-> Str(qWorld)]}
      [] route = "/api/ai/generate-simple-email" ->
            {NoField, [recipient |-> Str(<<>>)], [recipient |-> Str(qWorld)],
             [recipient |-> Str(qWorld), originalMessage |-> Str(qWorld)]}
      [] OTHER ->
            {Spread(Spread(r, m), u) :
                r \in {NoField, [recipient |-> Str(<<>>)], [recipient |-> Str(qWorld)],
                       [recipient |-> Str(qNobody)]},
                m \in {NoField, [mcpEnabled |-> Bool(FALSE)], [mcpEnabled |-> Bool(TRUE)]},
                u \in {NoField, [useAI |-> Bool(FALSE)]}}

\* status and body of the response, and the end of the handler
Responded(h, status, json) ==
    [h EXCEPT !.pc = "responded", !.status = status, !.json = Some(json)]

\* the request as the handler sees it on entry
Received(route, body) == [IdleHttp(http.apiKey) EXCEPT !.route = route, !.body = body]

\* if (!field) return res.status(400).json({ error: ... }): the whole handler
\* when the required field is missing or empty
Reject ==
    /\ http.pc = "idle"
    /\ \E route \in Routes :
         \E body \in Bodies(route) :
            /\ ~Validates(route, body)
            /\ http' = Responded(Received(route, body), 400, [error |-> "required"])
    /\ UNCHANGED <<platform, config, calls, prev, ui>>

\* the tool a route hands to executeTool
ToolOf(route, body) ==
    CASE route = "/api/mcp/execute" -> IF body.tool.s = <<>> THEN "" ELSE body.tool.s[1]
      [] route = "/api/outlook/search" -> "search_outlook_emails"
      [] route = "/api/files/search" -> "search_files_advanced"
      [] OTHER -> "generate_ai_email"

\* the one argument the tool's handler works on
ArgOf(route, body) ==
    IF route = "/api/mcp/execute" THEN body.arg ELSE body[RequiredField(route)].s

\* what openai.chat.completions.create may do: answer with a text, answer
\* with an empty text, or fail; it fails when the key is none
ChatCompletions(apiKey) ==
    IF KeyConfigured(apiKey)
    THEN {[ok |-> TRUE, content |-> "text"], [ok |-> TRUE, content |-> ""], [ok |-> FALSE, content |-> ""]}
    ELSE {[ok |-> FALSE, content |-> ""]}

\* the catch of a route: /api/mcp/execute adds success: false
CaughtBody(route) ==
    IF route = "/api/mcp/execute" THEN [success |-> FALSE, error |-> "message"]
    ELSE [error |-> "message"]

\* POST /api/mcp/execute, /api/outlook/search, /api/files/search and
\* /api/ai/generate-email with their field present: executeTool, up to the
\* first await of a search, or to the response
PostTool ==
    /\ http.pc = "idle"
    /\ \E route \in ToolRoutes :
         \E body \in Bodies(route) :
            /\ Validates(route, body)
            /\ LET toolName == ToolOf(route, body)
                   handler == Dispatch(toolName)
                   h == [Received(route, body) EXCEPT
                            !.ran = <<[tool |-> toolName, handler |-> handler]>>]
               IN  IF handler = "throw"
                   THEN /\ http' = Responded(h, 500, CaughtBody(route))
                        /\ UNCHANGED calls
                   ELSE IF handler = "searchFilesAdvanced"
                   THEN /\ http' = [h EXCEPT !.pc = "tool"]
                        /\ calls' = [calls EXCEPT ![1] =
                              Entered(calls[1], ArgOf(route, body),
                                  IF "locations" \in DOMAIN body THEN Some(body.locations) ELSE None,
                                  IF "fileTypes" \in DOMAIN body THEN Some(body.fileTypes) ELSE None)]
                   ELSE IF handler = "analyzeEmailPatternsAdvanced"
                   THEN /\ http' = [h EXCEPT !.pc = "tool"]
                        /\ calls' = [calls EXCEPT ![1] =
                              [Entered(calls[1], ArgOf(route, body), None, None)
                                  EXCEPT !.caller = "analyzeEmailPatternsAdvanced"]]
                   ELSE /\ \E r \in HandlerReturns(handler, ArgOf(route, body)) :
                           \E sent \in IF handler # "generateAIEmail" THEN {FALSE}
                                        ELSE IF r.success THEN {TRUE} ELSE BOOLEAN :
                              http' = Responded(
                                  [h EXCEPT !.llm = IF sent THEN {"generateAIEmail"} ELSE {}],
                                  200, r)
                        /\ UNCHANGED calls
    /\ UNCHANGED <<platform, config, prev, ui>>

\* res.json(result) once the search or the analysis of executeTool has returned
ToolReturns ==
    /\ http.pc = "tool"
    /\ calls[1].pc \in {"done", "returned"}
    /\ http' = Responded(http, 200,
                         IF calls[1].pc = "done" THEN calls[1].ret[1] ELSE calls[1].out[1])
    /\ UNCHANGED <<platform, config, calls, prev, ui>>

\* POST /api/ai/generate-simple-email with a recipient
PostSimpleEmail ==
    /\ http.pc = "idle"
    /\ \E body \in Bodies("/api/ai/generate-simple-email") :
         LET h == Received("/api/ai/generate-simple-email", body) IN
         /\ Validates("/api/ai/generate-simple-email", body)
         /\ IF ~KeyConfigured(http.apiKey)
            THEN http' = Responded(h, 400, [error |-> "OpenAI API key not configured"])
            ELSE IF Field(body, "originalMessage").t # "string"
            THEN \* extractEmailIntent: message.toLowerCase() throws, caught
                 http' = Responded(h, 500, [error |-> "TypeError"])
            ELSE \E completion \in ChatCompletions(http.apiKey) :
                    http' = IF completion.ok
                            THEN Responded([h EXCEPT !.llm = {"generateSimpleAIEmail"}], 200,
                                           [success |-> TRUE, emailDraft |-> completion.content,
                                            aiGenerated |-> TRUE])
                            ELSE Responded([h EXCEPT !.llm = {"generateSimpleAIEmail"}], 500,
                                           [error |-> "message"])
    /\ UNCHANGED <<platform, config, calls, prev, ui>>

\* const { recipient, mcpEnabled, useAI = true } = req.body
UseAI(body) == IF Field(body, "useAI").t = "undefined" THEN Bool(TRUE) ELSE Field(body, "useAI")

\* the MCP branch is entered unless mcpEnabled is false
MCPBranchUnlessFalse(body) == Field(body, "mcpEnabled") # Bool(FALSE)

\* if (mcpEnabled) { ... } else { ... } of the draft handler
MCPBranch(body) == Truthy(Field(body, "mcpEnabled"))

\* generateFallbackEmail(recipient, analysis): all four templates are built
\* before one is chosen
GenerateFallbackEmail(analysis) ==
    IF \/ OptionalJoinThrows(Field(analysis, "commonTopics"))
       \/ OptionalJoinThrows(Field(analysis, "preferences"))
    THEN [threw |-> TRUE, text |-> ""]
    ELSE [threw |-> FALSE, text |-> "context template"]

\* the object the draft handler sends with res.json(response)
DraftResponse(body, emailDraft, context, aiGenerated) ==
    [recipient |-> body.recipient, emailDraft |-> emailDraft, context |-> context,
     aiGenerated |-> aiGenerated]

\* POST /api/email/draft with a recipient: the context-free branch to its
\* response, the MCP branch up to the first await of the analysis
PostDraft ==
    /\ http.pc = "idle"
    /\ \E body \in Bodies("/api/email/draft") :
         LET h == Received("/api/email/draft", body) IN
         /\ Validates("/api/email/draft", body)
         /\ IF MCPBranch(body)
            THEN /\ http' = [h EXCEPT !.pc = "analysis",
                                !.ran = <<[tool |-> "analyze_email_patterns_advanced",
                                           handler |-> Dispatch("analyze_email_patterns_advanced")]>>]
                 /\ calls' = [calls EXCEPT ![1] =
                        [Entered(calls[1], body.recipient.s, None, None)
                            EXCEPT !.caller = "analyzeEmailPatternsAdvanced"]]
            ELSE /\ UNCHANGED calls
                 /\ IF Truthy(UseAI(body)) /\ KeyConfigured(http.apiKey)
                    THEN \E completion \in ChatCompletions(http.apiKey) :
                            http' = Responded([h EXCEPT !.llm = {"generateSimpleAIEmail"}], 200,
                                IF completion.ok
                                THEN DraftResponse(body, completion.content,
                                                   Some([note |-> "No context analysis - MCP disabled"]),
                                                   TRUE)
                                ELSE DraftResponse(body, "generic template", None, FALSE))
                    ELSE http' = Responded(h, 200,
                                DraftResponse(body, "generic template",
                                              Some([note |-> "AI disabled or API key not configured"]),
                                              FALSE))
    /\ UNCHANGED <<platform, config, prev, ui>>

\* the MCP branch of the draft handler once the analysis has returned:
\* generate_ai_email, generateFallbackEmail or generateGenericEmail
DraftAfterAnalysis ==
    /\ http.pc = "analysis"
    /\ calls[1].pc = "returned"
    /\ LET analysisResult == calls[1].out[1]
           body == http.body
           fallback == GenerateFallbackEmail(analysisResult.analysis)
           Fallback(h) ==
               IF fallback.threw THEN Responded(h, 500, [error |-> "TypeError"])
               ELSE Responded(h, 200, DraftResponse(body, fallback.text,
                                                    Some(analysisResult.analysis), FALSE))
           ai == [http EXCEPT !.ran = Append(@, [tool |-> "generate_ai_email",
                                                handler |-> Dispatch("generate_ai_email")])]
       IN  IF ~analysisResult.success
           THEN http' = Responded(http, 200,
                                  DraftResponse(body, "generic template",
                                                Some([error |-> "message"]), FALSE))
           ELSE IF Truthy(UseAI(body)) /\ KeyConfigured(http.apiKey)
           THEN IF OptionalJoinThrows(Field(analysisResult.analysis, "commonTopics"))
                THEN \* the prompt of generateAIEmail cannot be built
                     http' = Fallback(ai)
                ELSE \E completion \in ChatCompletions(http.apiKey) :
                        http' = IF completion.ok
                                THEN Responded([ai EXCEPT !.llm = @ \cup {"generateAIEmail"}], 200,
                                               DraftResponse(body, completion.content,
                                                             Some(analysisResult.analysis), TRUE))
                                ELSE Fallback([ai EXCEPT !.llm = @ \cup {"generateAIEmail"}])
           ELSE http' = Fallback(http)
    /\ UNCHANGED <<platform, config, calls, prev, ui>>

\* the response has gone; the server waits for the next request
NextRequest ==
    /\ http.pc = "responded"
    /\ http' = IdleHttp(http.apiKey)
    /\ calls' = [calls EXCEPT ![1] = IdleCall]
    /\ UNCHANGED <<platform, config, prev, ui>>

NextHttp ==
    \/ Reject
    \/ PostTool
    \/ ToolReturns
    \/ PostSimpleEmail
    \/ PostDraft
    \/ DraftAfterAnalysis
    \/ NextRequest
    \/ Walk(1)
    \/ AnalyzeMock(1)
    \/ AnalyzeReadFile(1)
    \/ AnalyzeWithAI(1)

InitHttp ==
    /\ platform \in HttpPlatforms
    /\ capabilities = Capabilities
    /\ tools = Tools
    /\ searchLocations = GetSearchLocations(platform)
    /\ emailFileTypes = EmailFileTypes
    /\ calls = [c \in Calls |-> IdleCall]
    /\ prev = [c \in Calls |-> None]
    /\ ui = InitialUI("page.js", "up")
    /\ http \in {IdleHttp(apiKey) : apiKey \in ApiKeys}

SpecHttp == InitHttp /\ [][NextHttp]_vars

TypeOK ==
    /\ platform \in Platforms
    /\ \A c \in Calls :
         calls[c].pc \in {"idle", "loop", "walk", "readUtf8", "readLatin1", "stat", "done",
                          "searched", "returned"}


(***************************************************************************)
(* Vocabulary of the properties, stated on the file tree and not on the    *)
(* walk.                                                                   *)
(***************************************************************************)
Nodes == {FS[i] : i \in 1..Len(FS)}
Done(c) == calls[c].pc = "done"
Ret(c) == calls[c].ret[1]
FilesOf(results) == {results[i].file : i \in 1..Len(results)}
RecordsOf(results) == {results[i] : i \in 1..Len(results)}
\* the record the walk in progress has pushed last, if any
Newest(results) == IF results = <<>> THEN {} ELSE {results[Len(results)]}
NewestFile(results) == {r.file : r \in Newest(results)}
IsPrefix(p, q) == Len(p) <= Len(q) /\ SubSeq(q, 1, Len(p)) = p
RootAt(cr, i) == Resolve(cr.searchLocations[i])
RootIndexes(cr) == 1..Len(cr.searchLocations)

\* the name is hidden, or one of the four excluded names
ExcludedNames == {nNodeModules, nVendor, nVenv, nPycache}
HiddenOrExcluded(name) == (Len(name) > 0 /\ name[1] = ".") \/ name \in ExcludedNames

\* two characters are the same letter, whatever their case
SameLetter(a, b) == a = b \/ \E i \in 1..26 : {a, b} = {UpperLetters[i], LowerLetters[i]}
SameIgnoringCase(s, t) ==
    Len(s) = Len(t) /\ \A i \in 1..Len(s) : SameLetter(s[i], t[i])
ContainsIgnoringCase(s, q) ==
    \E i \in 0..(Len(s) - Len(q)) : \A j \in 1..Len(q) : SameLetter(s[i + j], q[j])

\* the extension of a file as the match records give it
LowerExtension(p) == ToLowerCase(Extname(Basename(p)))
TypesInForce(cr) ==
    LET list == IF cr.customFileTypes = None THEN emailFileTypes ELSE cr.customFileTypes[1]
    IN  {list[i] : i \in 1..Len(list)}

\* every directory from the root down to the parent of p can be listed
Listable(root, p) ==
    \A k \in Len(root)..(Len(p) - 1) :
        LET d == SubSeq(p, 1, k) IN \E n \in Nodes : n.path = d /\ n.kind = "dir" /\ n.listable

\* p lies under the root, at most MaxDepth directories down, behind no hidden
\* or excluded name and behind directories that can all be listed
Reachable(root, p) ==
    /\ IsPrefix(root, p)
    /\ Len(p) - Len(root) \in 1..4
    /\ \A k \in (Len(root) + 1)..Len(p) : ~HiddenOrExcluded(p[k])
    /\ Listable(root, p)

Readable(n) == (n.utf8 \/ n.latin1) /\ n.stat

\* the files a walk of the root has to report for the query
Expected(root, types, q) ==
    {n.path : n \in {m \in Nodes : /\ m.kind = "file"
                                   /\ Reachable(root, m.path)
                                   /\ LowerExtension(m.path) \in types
                                   /\ Readable(m)
                                   /\ ContainsIgnoringCase(m.content, q)}}

ExpectedOfCall(cr, q) ==
    UNION {Expected(RootAt(cr, i), TypesInForce(cr), q) : i \in RootIndexes(cr)}

RECURSIVE SumExpected(_, _)
SumExpected(cr, n) ==
    IF n = 0 THEN 0
    ELSE SumExpected(cr, n - 1)
         + Cardinality(Expected(RootAt(cr, n), TypesInForce(cr), cr.query))

(***************************************************************************)
(* C1.  The results array returned by searchFilesAdvanced holds at most 50 *)
(* match records, however many files matched.                              *)
(***************************************************************************)
C1_AtMost50Results ==
    \A c \in Calls : Done(c) => Len(Ret(c).results) <= 50

\* a search that found more than 50 matches has returned
C1_Witness ==
    \E c \in Calls : Done(c) /\ Len(calls[c].results) > 50 /\ Len(Ret(c).results) = 50

(***************************************************************************)
(* C2.  Counting the root of the walk in progress as depth 0, a directory  *)
(* is enumerated only at depth 0..3, and every file recorded lies at most  *)
(* 3 directories below the root whose walk recorded it; so every file      *)
(* returned lies at most 3 directories below one of the roots searched.    *)
(***************************************************************************)
C2_DepthAtMost3 ==
    \A c \in Calls :
        LET cr == calls[c] IN
        /\ \A k \in 1..Len(cr.stack) :
              /\ IsPrefix(cr.resolvedLocation, cr.stack[k].dir)
              /\ cr.stack[k].depth = Len(cr.stack[k].dir) - Len(cr.resolvedLocation)
              /\ cr.stack[k].entered => cr.stack[k].depth <= 3
        /\ \A f \in NewestFile(cr.locResults) :
              IsPrefix(cr.resolvedLocation, f) /\ Len(f) - Len(cr.resolvedLocation) <= 4
        /\ Done(c) =>
              \A f \in FilesOf(cr.results) :
                  \E i \in RootIndexes(cr) :
                      IsPrefix(RootAt(cr, i), f) /\ Len(f) - Len(RootAt(cr, i)) <= 4

\* the walk stands at a directory 4 levels below its root
C2_Witness ==
    \E c \in Calls :
        /\ calls[c].pc = "walk"
        /\ Top(calls[c]).depth = 4
        /\ CanReaddir(Top(calls[c]).dir)
        /\ \E n \in Nodes : n.kind = "file" /\ Parent(n.path) = Top(calls[c]).dir

(***************************************************************************)
(* C3 as stated.  No file returned lies beneath a hidden or excluded       *)
(* directory that is a search root or lies below one.                      *)
(***************************************************************************)
C3_NothingBeneathExcludedAtOrBelowRoot ==
    \A c \in Calls :
        Done(c) =>
            \A f \in FilesOf(Ret(c).results) : \A i \in RootIndexes(calls[c]) :
                LET root == RootAt(calls[c], i) IN
                (root # <<>> /\ IsPrefix(root, f)) =>
                    \A k \in Len(root)..(Len(f) - 1) : ~HiddenOrExcluded(f[k])

(***************************************************************************)
(* C3 amended.  The walk of a root records no file beneath a hidden or     *)
(* excluded directory lying strictly below that root: every file returned  *)
(* has a root of the search above it with no such directory in between.    *)
(***************************************************************************)
C3_NothingBeneathExcludedBelowRoot ==
    \A c \in Calls :
        LET cr == calls[c] IN
        /\ \A f \in NewestFile(cr.locResults) :
              /\ IsPrefix(cr.resolvedLocation, f)
              /\ \A k \in (Len(cr.resolvedLocation) + 1)..(Len(f) - 1) :
                    ~HiddenOrExcluded(f[k])
        /\ Done(c) =>
              \A f \in FilesOf(cr.results) :
                  \E i \in RootIndexes(cr) :
                      /\ IsPrefix(RootAt(cr, i), f)
                      /\ \A k \in (Len(RootAt(cr, i)) + 1)..(Len(f) - 1) :
                            ~HiddenOrExcluded(f[k])

\* a search has returned matches from a root that has, behind a hidden or
\* excluded directory below it, a readable file of an allowed type that
\* contains the query
C3_Witness ==
    \E c \in Calls :
        /\ Done(c)
        /\ Ret(c).results # <<>>
        /\ \E i \in RootIndexes(calls[c]), n \in Nodes :
              /\ n.kind = "file"
              /\ IsPrefix(RootAt(calls[c], i), n.path)
              /\ \E k \in (Len(RootAt(calls[c], i)) + 1)..(Len(n.path) - 1) :
                    HiddenOrExcluded(n.path[k])
              /\ Len(n.path) - Len(RootAt(calls[c], i)) <= 4
              /\ Readable(n)
              /\ LowerExtension(n.path) \in TypesInForce(calls[c])
              /\ ContainsIgnoringCase(n.content, calls[c].query)

(***************************************************************************)
(* C4.  A file whose (lower-cased) extension is not in the file-type set   *)
(* in force, the caller's or the default one, never appears in the results.*)
(***************************************************************************)
C4_OnlyAllowedExtensions ==
    \A c \in Calls :
        Done(c) =>
            \A f \in FilesOf(calls[c].results) \cup FilesOf(Ret(c).results) :
                LowerExtension(f) \in TypesInForce(calls[c])

\* a search has returned matches although a readable file that contains the
\* query, directly in one of its roots, has an extension outside the set
C4_Witness ==
    \E c \in Calls :
        /\ Done(c)
        /\ Ret(c).results # <<>>
        /\ \E i \in RootIndexes(calls[c]), n \in Nodes :
              /\ n.kind = "file"
              /\ Reachable(RootAt(calls[c], i), n.path)
              /\ Readable(n)
              /\ ContainsIgnoringCase(n.content, calls[c].query)
              /\ LowerExtension(n.path) \notin TypesInForce(calls[c])

(***************************************************************************)
(* C5.  A readable regular file with an allowed extension, reachable from  *)
(* a root within the depth limit behind no hidden or excluded name, is     *)
(* recorded as a match if and only if its content contains the query       *)
(* compared without regard to letter case; a query that differs from the   *)
(* one given in letter case only has the same matched files.               *)
(***************************************************************************)
C5_MatchIffContainsIgnoringCase ==
    \A c \in Calls :
        Done(c) =>
            /\ FilesOf(calls[c].results) = ExpectedOfCall(calls[c], calls[c].query)
            /\ \A q \in Queries :
                  SameIgnoringCase(q, calls[c].query) =>
                      FilesOf(calls[c].results) = ExpectedOfCall(calls[c], q)

\* a search has returned a file whose content contains the query in another
\* letter case only, and has passed over a file that does not contain it
C5_Witness ==
    \E c \in Calls :
        /\ Done(c)
        /\ \E f \in FilesOf(calls[c].results) :
              /\ ~Includes(Node(f).content, calls[c].query)
              /\ ContainsIgnoringCase(Node(f).content, calls[c].query)
        /\ \E i \in RootIndexes(calls[c]), n \in Nodes :
              /\ n.kind = "file"
              /\ Reachable(RootAt(calls[c], i), n.path)
              /\ Readable(n)
              /\ LowerExtension(n.path) \in TypesInForce(calls[c])
              /\ ~ContainsIgnoringCase(n.content, calls[c].query)
              /\ n.path \notin FilesOf(calls[c].results)

(***************************************************************************)
(* C6.  A search root that does not exist or cannot be opened contributes  *)
(* zero matches and raises no error, and the roots after it are searched:  *)
(* the call returns success with the matches of every root, and its        *)
(* searchLocations field is the whole list of roots in input order.        *)
(***************************************************************************)
C6_MissingRootIsSkipped ==
    \A c \in Calls :
        Done(c) =>
            /\ Ret(c).success
            /\ Ret(c).searchLocations =
                   (IF calls[c].customLocations = None THEN searchLocations
                    ELSE calls[c].customLocations[1])
            /\ Ret(c).totalResults = SumExpected(calls[c], Len(Ret(c).searchLocations))
            /\ \A i \in 1..Len(Ret(c).searchLocations) :
                  ~CanReaddir(Resolve(Ret(c).searchLocations[i])) =>
                      Expected(Resolve(Ret(c).searchLocations[i]),
                               TypesInForce(calls[c]), calls[c].query) = {}

\* a search has returned whose list holds a root that does not exist before a
\* root that has matches
C6_Witness ==
    \E c \in Calls :
        /\ Done(c)
        /\ \E i, j \in RootIndexes(calls[c]) :
              /\ i < j
              /\ ~Exists(RootAt(calls[c], i))
              /\ Expected(RootAt(calls[c], j), TypesInForce(calls[c]), calls[c].query) # {}
              /\ \E f \in FilesOf(Ret(c).results) : IsPrefix(RootAt(calls[c], j), f)

(***************************************************************************)
(* C7.  A second call with the arguments of the call before it, over the   *)
(* same file tree, returns the same set of match records.                  *)
(***************************************************************************)
C7_SameArgumentsSameRecords ==
    \A c \in Calls :
        (Done(c) /\ prev[c] # None) =>
            RecordsOf(Ret(c).results) = RecordsOf(prev[c][1].results)

\* a call has been repeated with the same arguments and has returned matches
C7_Witness ==
    \E c \in Calls :
        /\ Done(c)
        /\ prev[c] # None
        /\ prev[c][1].results # <<>>
        /\ Ret(c).results # <<>>

(***************************************************************************)
(* C8.  The preview of a match record holds at most 3 entries; each entry  *)
(* gives the 1-based number of a line of the file and its trimmed text,    *)
(* which contains the query without regard to case; the entries are in     *)
(* increasing line order and are the first such lines of the file.         *)
(***************************************************************************)
Newlines(s) == {i \in 1..Len(s) : s[i] = "\n"}
LineCount(s) == Cardinality(Newlines(s)) + 1
\* the n-th line of s: what lies between the (n-1)-th and the n-th newline
LineText(s, n) ==
    LET before == {i \in Newlines(s) : Cardinality({j \in Newlines(s) : j <= i}) = n - 1}
        after  == {i \in Newlines(s) : Cardinality({j \in Newlines(s) : j <= i}) = n}
        first  == IF n = 1 THEN 1 ELSE (CHOOSE i \in before : TRUE) + 1
        last   == IF after = {} THEN Len(s) ELSE (CHOOSE i \in after : TRUE) - 1
    IN  SubSeq(s, first, last)
MatchingLines(s, q) ==
    {n \in 1..LineCount(s) : ContainsIgnoringCase(Trim(LineText(s, n)), q)}

PreviewIsFirstMatchingLines(r, q) ==
    LET text == Node(r.file).content
        shown == {r.preview[k].number : k \in 1..Len(r.preview)}
    IN  /\ Len(r.preview) <= 3
        /\ \A k \in 1..Len(r.preview) :
              /\ r.preview[k].number \in MatchingLines(text, q)
              /\ r.preview[k].line = Trim(LineText(text, r.preview[k].number))
        /\ \A k \in 1..(Len(r.preview) - 1) : r.preview[k].number < r.preview[k + 1].number
        /\ \A n \in MatchingLines(text, q) :
              n \in shown \/ (Len(r.preview) = 3 /\ \A m \in shown : m < n)

C8_PreviewFirstThreeLines ==
    \A c \in Calls :
        Done(c) =>
            \A r \in RecordsOf(calls[c].results) \cup RecordsOf(Ret(c).results) :
                PreviewIsFirstMatchingLines(r, calls[c].query)

\* a record has been returned for a file with more than 3 matching lines,
\* whose first matching line is shown trimmed
C8_Witness ==
    \E c \in Calls :
        /\ Done(c)
        /\ \E r \in RecordsOf(Ret(c).results) :
              /\ Cardinality(MatchingLines(Node(r.file).content, calls[c].query)) > 3
              /\ Len(r.preview) = 3
              /\ r.preview[1].line # LineText(Node(r.file).content, r.preview[1].number)
              /\ r.preview[2].number > 2

(***************************************************************************)
(* C9.  A file whose content cannot be read is never reported and never    *)
(* aborts the search: readFile tries utf-8, then latin1, and nothing more; *)
(* when both fail the walker goes on with the remaining entries, and the   *)
(* call returns success with the matches of the other files.               *)
(***************************************************************************)
Unreadable(n) == n.kind = "file" /\ ~n.utf8 /\ ~n.latin1

C9_UnreadableFileIsSkipped ==
    \A c \in Calls :
        LET cr == calls[c] IN
        /\ Len(cr.rf.attempts) <= 2
        /\ \A k \in 1..Len(cr.rf.attempts) : cr.rf.attempts[k] = <<"utf-8", "latin1">>[k]
        /\ Done(c) =>
              /\ Ret(c).success
              /\ \A f \in FilesOf(cr.results) \cup FilesOf(Ret(c).results) :
                    ~Unreadable(Node(f))
              /\ \A i \in RootIndexes(cr), u \in Nodes :
                    (Unreadable(u) /\ Reachable(RootAt(cr, i), u.path)
                                   /\ LowerExtension(u.path) \in TypesInForce(cr)) =>
                        \A f \in Expected(RootAt(cr, i), TypesInForce(cr), cr.query) :
                            f \in FilesOf(cr.results)

\* a search has returned a file that its directory lists after a file that
\* failed both reads
C9_Witness ==
    \E c \in Calls :
        /\ Done(c)
        /\ Ret(c).success
        /\ \E i \in RootIndexes(calls[c]), a \in 1..Len(FS) :
              /\ Unreadable(FS[a])
              /\ Reachable(RootAt(calls[c], i), FS[a].path)
              /\ LowerExtension(FS[a].path) \in TypesInForce(calls[c])
              /\ \E b \in (a + 1)..Len(FS) :
                    /\ Parent(FS[b].path) = Parent(FS[a].path)
                    /\ FS[b].path \in FilesOf(Ret(c).results)

(***************************************************************************)
(* C10.  A directory met during the walk that cannot be enumerated is      *)
(* skipped alone: the matches recorded before it are kept, the entries of  *)
(* its parent after it are still visited, and the search returns success.  *)
(***************************************************************************)
\* d is a directory the walk of the root meets and fails to enumerate
MetUnlistable(root, d) ==
    /\ d.kind = "dir"
    /\ ~d.listable
    /\ IsPrefix(root, d.path)
    /\ Len(d.path) - Len(root) \in 1..3
    /\ \A k \in (Len(root) + 1)..Len(d.path) : ~HiddenOrExcluded(d.path[k])
    /\ Listable(root, d.path)

C10_UnlistableDirectoryIsSkipped ==
    \A c \in Calls :
        LET cr == calls[c] IN
        Done(c) =>
            /\ Ret(c).success
            /\ \A i \in RootIndexes(cr), d \in Nodes :
                  MetUnlistable(RootAt(cr, i), d) =>
                      \A f \in Expected(RootAt(cr, i), TypesInForce(cr), cr.query) :
                          f \in FilesOf(cr.results)

\* a search has returned a match listed before, and a match listed after, a
\* directory of the same parent that could not be enumerated
C10_Witness ==
    \E c \in Calls :
        /\ Done(c)
        /\ Ret(c).success
        /\ \E i \in RootIndexes(calls[c]), d \in 1..Len(FS) :
              /\ MetUnlistable(RootAt(calls[c], i), FS[d])
              /\ \E a \in 1..(d - 1) :
                    /\ Parent(FS[a].path) = Parent(FS[d].path)
                    /\ FS[a].path \in FilesOf(Ret(c).results)
              /\ \E b \in (d + 1)..Len(FS) :
                    /\ Parent(FS[b].path) = Parent(FS[d].path)
                    /\ FS[b].path \in FilesOf(Ret(c).results)

(***************************************************************************)
(* C11.  The roots are walked in the order given, and the results array    *)
(* returned is the first 50 elements of the concatenation, root after      *)
(* root, of the matches of each root in depth-first discovery order: a     *)
(* match of an earlier root is never displaced by one of a later root.     *)
(* Discovery order is stated on the tree: of two files, the one whose      *)
(* branch is listed first by the directory where their paths part.         *)
(***************************************************************************)
Position(p) == CHOOSE i \in 1..Len(FS) : FS[i].path = p
PartAt(p, q) ==
    CHOOSE k \in 1..Min(Len(p), Len(q)) :
        p[k] # q[k] /\ SubSeq(p, 1, k - 1) = SubSeq(q, 1, k - 1)
DiscoveredBefore(p, q) ==
    Position(SubSeq(p, 1, PartAt(p, q))) < Position(SubSeq(q, 1, PartAt(p, q)))

RECURSIVE InDiscoveryOrder(_)
InDiscoveryOrder(S) ==
    IF S = {} THEN <<>>
    ELSE LET first == CHOOSE p \in S : \A q \in S \ {p} : DiscoveredBefore(p, q)
         IN  <<first>> \o InDiscoveryOrder(S \ {first})

FilesInDiscoveryOrder == InDiscoveryOrder({n.path : n \in {m \in Nodes : m.kind = "file"}})

ExpectedInOrder(root, types, q) ==
    LET expected == Expected(root, types, q)
    IN  SelectSeq(FilesInDiscoveryOrder, LAMBDA p : p \in expected)

RECURSIVE ExpectedOfRoots(_, _)
ExpectedOfRoots(cr, n) ==
    IF n = 0 THEN <<>>
    ELSE ExpectedOfRoots(cr, n - 1)
         \o ExpectedInOrder(RootAt(cr, n), TypesInForce(cr), cr.query)

FileSeq(results) == [i \in 1..Len(results) |-> results[i].file]

C11_FirstFiftyInRootThenDiscoveryOrder ==
    \A c \in Calls :
        LET cr == calls[c] IN
        Done(c) =>
            LET all == ExpectedOfRoots(cr, Len(cr.searchLocations))
            IN  FileSeq(Ret(c).results) = SubSeq(all, 1, Min(50, Len(all)))

\* a search of two different roots has returned matches of both, those of a
\* file listed after a subdirectory among them
C11_Witness ==
    \E c \in Calls :
        LET cr == calls[c] IN
        /\ Done(c)
        /\ Len(cr.searchLocations) = 2
        /\ RootAt(cr, 1) # RootAt(cr, 2)
        /\ Expected(RootAt(cr, 1), TypesInForce(cr), cr.query) # {}
        /\ Expected(RootAt(cr, 2), TypesInForce(cr), cr.query) # {}
        /\ (Documents \o <<nEndTxt>>) \in FilesOf(Ret(c).results)
        /\ (Chain3 \o <<nF3>>) \in FilesOf(Ret(c).results)

(***************************************************************************)
(* C12.  A search runs until every root has been walked or until 50        *)
(* matches have been collected, whichever comes first: once the 50th match *)
(* is recorded, no further directory is enumerated and no further file is  *)
(* read.                                                                   *)
(***************************************************************************)
Recorded(cr) == Len(cr.results) + Len(cr.locResults)
Enumerates(c) ==
    /\ calls[c].pc = "walk"
    /\ ~Top(calls[c]).entered
    /\ calls'[c].pc = "walk"
    /\ Len(calls'[c].stack) = Len(calls[c].stack)
    /\ Top(calls'[c]).entered
ReadsFile(c) ==
    /\ calls[c].pc \in {"readUtf8", "readLatin1"}
    /\ calls'[c] # calls[c]

C12_NothingReadAfterFiftiethMatch ==
    [][\A c \in Calls :
          Recorded(calls[c]) >= 50 => ~Enumerates(c) /\ ~ReadsFile(c)]_vars

(***************************************************************************)
(* C12, as the code has it.  A search runs until every root has been       *)
(* walked to its end, whatever the number of matches: at each turn of the  *)
(* loop over the roots, and at the return, the matches collected are all   *)
(* the matches of the roots walked so far, the ones past the 50th among    *)
(* them, and the search returns only after the last root.                  *)
(***************************************************************************)
C12_RunsUntilEveryRootWalked ==
    \A c \in Calls :
        LET cr == calls[c] IN
        /\ cr.pc \in {"loop", "done"} =>
               FileSeq(cr.results) = ExpectedOfRoots(cr, cr.locIdx - 1)
        /\ Done(c) => cr.locIdx = Len(cr.searchLocations) + 1

\* 50 matches are recorded and the walk is reading one more file
C12_Witness ==
    \E c \in Calls :
        /\ Recorded(calls[c]) >= 50
        /\ calls[c].pc = "readUtf8"

(***************************************************************************)
(* C13.  Invalid arguments to searchFilesAdvanced (a missing or non-string *)
(* query, or roots that are not a list of path strings) surface as an      *)
(* error outcome to the caller, success: false; they are never swallowed   *)
(* into a successful result with zero matches.                             *)
(***************************************************************************)
HasInvalidArguments(cr) == ~cr.queryIsString \/ ~cr.iterable \/ cr.notStrings # {}

C13_InvalidArgumentsSurface ==
    \A c \in Calls :
        (Done(c) /\ HasInvalidArguments(calls[c])) => ~Ret(c).success

(***************************************************************************)
(* C14.  analyzeEmailPatternsAdvanced hands at most 10 files to the AI     *)
(* analysis step, the readable files among the first 10 search results in  *)
(* result order; in every successful analysis that is not the mock one,    *)
(* analyzedFiles <= min(10, foundFiles) and foundFiles <= 50.              *)
(***************************************************************************)
Analyzed(c) ==
    /\ calls[c].pc = "returned"
    /\ calls[c].caller = "analyzeEmailPatternsAdvanced"
    /\ calls[c].out[1].success
    /\ LET analysis == calls[c].out[1].analysis
       IN  "dataSource" \notin DOMAIN analysis \/ analysis.dataSource # "mock"

ReadableAmongFirstTen(results) ==
    LET files == FileSeq(SubSeq(results, 1, Min(10, Len(results))))
    IN  SelectSeq(files, LAMBDA p : \E n \in Nodes : n.path = p /\ Readable(n))

\* the files handed to the AI step
FilesHanded(c) == FileSeq(calls[c].emailContents)

C14_AtMostTenFilesAnalyzed ==
    \A c \in Calls :
        Analyzed(c) =>
            LET analysis == calls[c].out[1].analysis IN
            /\ Len(FilesHanded(c)) <= 10
            /\ FilesHanded(c) = ReadableAmongFirstTen(calls[c].ret[1].results)
            /\ analysis.analyzedFiles <= Min(10, analysis.foundFiles)
            /\ analysis.foundFiles <= 50

\* what the code does keep: the files handed over are the readable ones among
\* the first 10 results, in result order
TenFilesHandedAtMost ==
    \A c \in Calls :
        Analyzed(c) =>
            /\ Len(FilesHanded(c)) <= 10
            /\ FilesHanded(c) = ReadableAmongFirstTen(calls[c].ret[1].results)
            /\ Len(calls[c].ret[1].results) <= 50

(***************************************************************************)
(* C15.  No search, and no tool run through executeTool, modifies the      *)
(* configuration the calls share (searchLocations, emailFileTypes, tools,  *)
(* capabilities): after any sequence of calls these hold the values the    *)
(* constructor gave them, and the result of a search is the one its        *)
(* arguments and the file tree determine, whatever was called before.      *)
(***************************************************************************)
WithConstructorDefaults(cr) ==
    [cr EXCEPT !.searchLocations =
                   IF cr.customLocations = None THEN GetSearchLocations(platform)
                   ELSE cr.customLocations[1]]

C15_SharedConfigurationUntouched ==
    /\ capabilities = Capabilities
    /\ tools = Tools
    /\ searchLocations = GetSearchLocations(platform)
    /\ emailFileTypes = EmailFileTypes
    /\ \A c \in Calls :
          Done(c) =>
              LET args == WithConstructorDefaults(calls[c])
                  all == ExpectedOfRoots(args, Len(args.searchLocations))
              IN  /\ Ret(c).success
                  /\ Ret(c).query = args.query
                  /\ Ret(c).searchLocations = args.searchLocations
                  /\ Ret(c).totalResults = Len(all)
                  /\ FileSeq(Ret(c).results) = SubSeq(all, 1, Min(50, Len(all)))

\* a search has returned matches after an earlier call of a tool that
\* returned something else
C15_Witness ==
    \E c \in Calls :
        /\ Done(c)
        /\ Ret(c).totalResults > 0
        /\ prev[c] # None
        /\ prev[c] # calls[c].ret
        /\ calls[c].customLocations # None

(***************************************************************************)
(* C16.  For any interleaving of two concurrent searchFilesAdvanced calls  *)
(* at their awaits over an unchanged file tree, each call returns the      *)
(* result it would return when run alone: at every moment the matches a    *)
(* call has recorded are the first of its own matches, none of the other   *)
(* call's among them, and at its return none of its own is missing.        *)
(***************************************************************************)
RecordOf(p, q) == MatchRecord(p, LowerExtension(p), Node(p).content, q)

AloneResults(cr) ==
    LET all == ExpectedOfRoots(cr, Len(cr.searchLocations))
    IN  [i \in 1..Len(all) |-> RecordOf(all[i], cr.query)]

C16_ConcurrentCallsReturnAsAlone ==
    \A c \in ConcCalls :
        LET cr == calls[c] IN
        cr.pc # "idle" =>
            /\ IsPrefix(cr.results \o cr.locResults, AloneResults(cr))
            /\ Done(c) =>
                  /\ Ret(c).success
                  /\ Ret(c).query = cr.query
                  /\ Ret(c).searchLocations = cr.searchLocations
                  /\ Ret(c).totalResults = Len(AloneResults(cr))
                  /\ Ret(c).results =
                        SubSeq(AloneResults(cr), 1, Min(50, Len(AloneResults(cr))))

\* two calls with different queries are both between two awaits of a file
\* read, each with a match recorded, and one of them has recorded a file that
\* does not match the query of the other
C16_Witness ==
    /\ calls[1].pc \in {"readUtf8", "stat"}
    /\ calls[2].pc \in {"readUtf8", "stat"}
    /\ calls[1].query # calls[2].query
    /\ calls[1].locResults # <<>>
    /\ calls[2].locResults # <<>>
    /\ \E i \in 1..Len(calls[2].locResults) :
          ~ContainsIgnoringCase(Node(calls[2].locResults[i].file).content, calls[1].query)

(***************************************************************************)
(* C17.  Within one searchFilesAdvanced call at most one operation of the  *)
(* filesystem (a directory listing, a file read or a stat) is outstanding  *)
(* at any moment: roots, directories and files are processed one after     *)
(* another, each operation settling before the next is issued, and none is *)
(* left outstanding between two roots or at the return.                    *)
(***************************************************************************)
C17_OneOperationOutstanding ==
    \A c \in Calls :
        /\ Cardinality(calls[c].inflight) <= 1
        /\ calls[c].pc \in {"idle", "loop", "done"} => calls[c].inflight = {}
        /\ calls[c].pc \in {"readUtf8", "readLatin1", "stat"} =>
               \E op \in calls[c].inflight : op.path = calls[c].rf.path

\* two calls each wait for an operation of their own, the stat of a file
\* whose read has settled and the listing of a directory
C17_Witness ==
    \E c, d \in Calls :
        /\ calls[c].inflight = {FsOp("stat", calls[c].rf.path, "")}
        /\ calls[c].rf.content # None
        /\ \E op \in calls[d].inflight : op.op = "readdir" /\ Len(calls[d].stack) > 1

(***************************************************************************)
(* C20.  totalResults is the number of matches found across all roots      *)
(* before truncation: in every successful result the results array has     *)
(* min(totalResults, 50) records, and totalResults exceeds that length     *)
(* exactly when more than 50 files matched.                                *)
(***************************************************************************)
(* C18, C19: the MCP mode of the chat page.                                *)
(***************************************************************************)
\* the clicks of the user on the Refresh and toggle buttons have been these:
\* Refresh, and once no connection check was pending, the MCP toggle; all in
\* front of a backend that has been up since the page mounted
RefreshedThenToggled(version) ==
    /\ ui.version = version
    /\ ui.healthy
    /\ ui.clicks = "Refresh, toggle"

\* the condition of the context-aware branch of generateResponse
ContextAwareBranchOpen == ui.MCPStatus = "connected" /\ ui.MCPEnabled

\* C18: in page.js, with a healthy backend, Refresh and then the MCP toggle
\* bring the page from its initial state to MCPStatus "connected" and
\* MCPEnabled true, so that the context-aware branch of generateResponse can
\* be taken
C18_RefreshThenToggleEnablesMCP ==
    RefreshedThenToggled("page.js") => ContextAwareBranchOpen

\* the same sequence in the older version of the page, whose buttons carry
\* their handlers in onClick
OlderPageEnablesMCP ==
    RefreshedThenToggled("part_000") => ContextAwareBranchOpen

\* page.js stays as it mounted: no action of the user changes the status or
\* the mode
PageJsStaysDisconnected ==
    ui.version = "page.js" => ui.MCPStatus = "disconnected" /\ ~ui.MCPEnabled

\* the page has posted a request on its MCP-enabled path
TookMCPPath == ui.request # None /\ ui.request[1].path = "mcp"

\* C19: in both versions of the page, whenever the MCP-enabled path is taken
\* for a parsed email request, the body posted to /api/email/draft carries a
\* truthy mcpEnabled field, and the backend answers it by running
\* analyze_email_patterns_advanced, not by its context-free branch
C19_MCPPathRunsContextAwareBranch ==
    TookMCPPath =>
        /\ ui.request[1].route = "/api/email/draft"
        /\ Truthy(Field(ui.request[1].body, "mcpEnabled"))
        /\ (ui.send = "idle" /\ ui.healthy) =>
               ui.ran = Some("analyze_email_patterns_advanced")

\* the older page has had an answer of the healthy backend on its MCP path
OlderPageAnsweredOnMCPPath ==
    /\ ui.version = "part_000"
    /\ TookMCPPath
    /\ ui.send = "idle"
    /\ ui.healthy
    /\ ui.ran = None

(***************************************************************************)
C20_TotalResultsCountsAllMatches ==
    \A c \in Calls :
        LET cr == calls[c] IN
        (Done(c) /\ Ret(c).success) =>
            LET matched == Len(ExpectedOfRoots(cr, Len(cr.searchLocations)))
            IN  /\ Ret(c).totalResults = matched
                /\ Len(Ret(c).results) = Min(Ret(c).totalResults, 50)
                /\ (Ret(c).totalResults > Len(Ret(c).results)) <=> (matched > 50)

\* a search has returned with more matches counted than records returned
C20_Witness ==
    \E c \in Calls :
        /\ Done(c)
        /\ Ret(c).success
        /\ Ret(c).totalResults > 50
        /\ Len(Ret(c).results) = 50

(***************************************************************************)
(* C21.  The extension test of the walk and upper-case letters.            *)
(***************************************************************************)
\* the files a walk would report if the extension of a file and a member of
\* the allowed set were compared without regard to letter case
ExpectedIgnoringExtensionCase(cr) ==
    {n.path : n \in {m \in Nodes :
        /\ m.kind = "file"
        /\ \E i \in RootIndexes(cr) : Reachable(RootAt(cr, i), m.path)
        /\ Readable(m)
        /\ ContainsIgnoringCase(m.content, cr.query)
        /\ \E t \in TypesInForce(cr) : SameIgnoringCase(Extname(Basename(m.path)), t)}}

\* C21: the extension test is case-insensitive: a file (readable, reachable,
\* containing the query) is accepted whenever its extension and some member
\* of the allowed set are equal ignoring letter case, be the upper-case
\* letters in the file's name or in the caller's list
C21_ExtensionTestIgnoresCase ==
    \A c \in Calls :
        Done(c) => ExpectedIgnoringExtensionCase(calls[c]) \subseteq FilesOf(calls[c].results)

\* the half of it that the code gives: upper-case letters in the file's name
UpperCaseFileExtensionAccepted ==
    \A c \in Calls :
        Done(c) =>
            \A f \in ExpectedIgnoringExtensionCase(calls[c]) :
                ToLowerCase(Extname(Basename(f))) \in TypesInForce(calls[c])
                    => f \in FilesOf(calls[c].results)

\* a search has recorded a file whose name carries its extension in upper case
UpperCaseFileExtensionRecorded ==
    \E c \in Calls :
        /\ Done(c)
        /\ \E f \in FilesOf(calls[c].results) :
              Extname(Basename(f)) # ToLowerCase(Extname(Basename(f)))

(***************************************************************************)
(* C22, C27: the dispatch of executeTool, seen through the HTTP routes.    *)
(***************************************************************************)
\* the calls of executeTool the request in hand has made
ToolRuns == {http.ran[i] : i \in 1..Len(http.ran)}

\* C22: the second case of 'search_outlook_emails' is unreachable: for every
\* tool name and every platform, macOS included, executeTool never calls
\* searchMacOSOutlook; 'search_outlook_emails' always runs searchOutlookEmails,
\* which answers success: false on every platform but Windows
C22_SecondOutlookCaseUnreachable ==
    \A run \in ToolRuns :
        /\ run.handler # "searchMacOSOutlook"
        /\ run.tool = "search_outlook_emails" =>
              /\ run.handler = "searchOutlookEmails"
              /\ (http.pc = "responded" /\ platform # "win32") =>
                     (http.status = 200 /\ ~http.json[1].success)

\* on macOS a request has run 'search_outlook_emails' and has been answered
C22_Witness ==
    /\ platform = "darwin"
    /\ http.pc = "responded"
    /\ \E run \in ToolRuns : run.tool = "search_outlook_emails"

\* the name is one of the catalog this.tools
InCatalog(toolName) == \E i \in 1..Len(tools) : tools[i] = toolName

\* C27: every tool name of the catalog this.tools is dispatched by executeTool
\* to a handler; executeTool throws 'Unknown tool' exactly for the names
\* outside the catalog, and /api/mcp/execute answers that throw with HTTP 500
\* and success: false
C27_CatalogIsDispatched ==
    /\ \A i \in 1..Len(tools) : Dispatch(tools[i]) # "throw"
    /\ \A run \in ToolRuns :
          /\ InCatalog(run.tool) <=> run.handler # "throw"
          /\ (http.route = "/api/mcp/execute" /\ http.pc = "responded"
                 /\ run.handler = "throw") =>
                (http.status = 500 /\ ~http.json[1].success)

\* /api/mcp/execute has answered a request for a tool outside the catalog,
\* and the catalog holds the seven names
C27_Witness ==
    /\ Len(tools) = 7
    /\ http.route = "/api/mcp/execute"
    /\ http.pc = "responded"
    /\ \E run \in ToolRuns : ~InCatalog(run.tool)

(***************************************************************************)
(* C23: the validation of the POST routes.                                 *)
(***************************************************************************)
\* the field is not in the body, or is the empty string
MissingOrEmpty(v) == v.t = "undefined" \/ (v.t = "string" /\ v.s = <<>>)

\* the request in hand lacks the field its route requires
LacksRequiredField ==
    http.pc # "idle" /\ MissingOrEmpty(Field(http.body, RequiredField(http.route)))

\* C23: every POST endpoint validates its required body field before doing
\* anything else: when tool, contactName, query or recipient is missing or
\* empty the response is HTTP 400, and no tool is executed, no file is read
\* and no LLM request is made
C23_MissingFieldIsRejectedFirst ==
    LacksRequiredField =>
        /\ http.pc = "responded"
        /\ http.status = 400
        /\ http.ran = <<>>
        /\ http.llm = {}
        /\ calls[1] = IdleCall

\* /api/email/draft has answered a request that asks for the MCP analysis
\* with an empty recipient
C23_Witness ==
    /\ LacksRequiredField
    /\ http.route = "/api/email/draft"
    /\ Field(http.body, "recipient") = Str(<<>>)
    /\ Truthy(Field(http.body, "mcpEnabled"))

(***************************************************************************)
(* C24: the context-free branch of /api/email/draft.                       *)
(***************************************************************************)
\* the draft handler has accepted a request whose mcpEnabled is falsy
DraftWithoutMCP ==
    /\ http.pc # "idle"
    /\ http.route = "/api/email/draft"
    /\ Truthy(Field(http.body, "recipient"))
    /\ ~Truthy(Field(http.body, "mcpEnabled"))

\* C24: when mcpEnabled is falsy in a request to /api/email/draft the
\* response is context-free: analyze_email_patterns_advanced is never run,
\* no file is searched or read, and context is null or holds only a note
C24_FalsyMcpEnabledIsContextFree ==
    DraftWithoutMCP =>
        /\ http.ran = <<>>
        /\ calls[1] = IdleCall
        /\ http.pc = "responded"
        /\ http.status = 200
        /\ \/ http.json[1].context = None
           \/ DOMAIN http.json[1].context[1] = {"note"}

\* a request without the mcpEnabled field was answered by the AI with the
\* note as its only context
C24_Witness ==
    /\ DraftWithoutMCP
    /\ Field(http.body, "mcpEnabled") = Undefined
    /\ http.json[1].aiGenerated
    /\ http.json[1].context # None

(***************************************************************************)
(* C25: the fallback chain of /api/email/draft.                            *)
(***************************************************************************)
\* the draft handler has answered a request with a non-empty recipient
DraftAnswered ==
    /\ http.pc = "responded"
    /\ http.route = "/api/email/draft"
    /\ Truthy(Field(http.body, "recipient"))

\* C25: for a non-empty string recipient the draft handler answers HTTP 200
\* with a non-empty emailDraft, whatever mcpEnabled and useAI are and whether
\* the file search, the AI analysis (with any JSON it returns) and the AI
\* generation succeed or fail
C25_DraftAlwaysAnswered ==
    DraftAnswered => (http.status = 200 /\ http.json[1].emailDraft # "")

\* the AI analysis answered with JSON whose commonTopics is a string, and the
\* draft handler answered HTTP 500
DraftFailedOnAnalysisShape ==
    /\ DraftAnswered
    /\ http.status = 500
    /\ Field(calls[1].out[1].analysis, "commonTopics").t = "string"

\* the handler fails in no other case: every HTTP 500 comes from
\* generateFallbackEmail joining a commonTopics that is not an array
DraftFailsOnlyOnAnalysisShape ==
    (DraftAnswered /\ http.status # 200) => DraftFailedOnAnalysisShape

(***************************************************************************)
(* C26: requests to the completion API while a draft is handled.           *)
(***************************************************************************)
\* the draft handler is handling, or has answered, a request that turns the
\* AI off or that arrives while no API key is configured
DraftWithoutAI ==
    /\ http.pc # "idle"
    /\ http.route = "/api/email/draft"
    /\ Truthy(Field(http.body, "recipient"))
    /\ (~Truthy(UseAI(http.body)) \/ ~KeyConfigured(http.apiKey))

\* C26: while /api/email/draft handles a request with useAI false, or with
\* OPENAI_API_KEY unset or equal to the placeholder, no request is sent to
\* the completion API, in the mcpEnabled branch or in the other one
C26_NoCompletionRequestWithoutAI ==
    DraftWithoutAI => (http.llm = {} /\ ~calls[1].llm)

\* a request with useAI false and mcpEnabled true whose analysis asked the
\* completion API
AnalysisAskedDespiteUseAIFalse ==
    /\ DraftWithoutAI
    /\ UseAI(http.body) = Bool(FALSE)
    /\ calls[1].llm

\* the draft handler itself never asks for an email when the AI is off: the
\* only completion request of such a handling is the one of analyzeWithAI
OnlyAnalysisAsksWithoutAI ==
    DraftWithoutAI => http.llm = {}

(***************************************************************************)
(* C28, C29, C30: the handlers of the chat page and its message list.      *)
(***************************************************************************)
\* handleSendMessage is between two of its awaits
SendInProgress == ui.send \in {"delay", "fetch"}

\* C28: after a handleSendMessage call that passed its guard, isLoading and
\* isTyping become false again whatever the backend answers; as nothing but
\* the end of the handler resets them, the page is never loading or typing
\* when no send is in progress (and no tool test has been started)
C28_NeverStaysLocked ==
    (ui.test = "idle" /\ (ui.isLoading \/ ui.isTyping)) => SendInProgress

\* handleSendMessage has ended by an exception of generateResponse on a
\* response of the MCP path, and the page is still loading
SendThrewAndPageLocked ==
    /\ ui.send = "thrown"
    /\ ui.request[1].path = "mcp"
    /\ ui.isLoading
    /\ ui.isTyping

\* once a handler has thrown nothing resets isLoading and isTyping, and no
\* send or test is accepted any more
LockedForGood ==
    [][(ui.send = "thrown" \/ ui.test = "thrown") =>
          /\ ui'.isLoading /\ ui'.isTyping
          /\ ui'.messages = ui.messages
          /\ ui'.sends = ui.sends /\ ui'.tests = ui.tests]_vars

\* handleSendMessage throws in the older page only, and only on the answer
\* of a server that is not the backend of this repository
SendThrowsOnlyOnOtherServer ==
    [][(ui.send # "thrown" /\ ui'.send = "thrown") =>
          (ui.version = "part_000" /\ ui.backend = "other")]_vars


\* the positions of the user messages in the list
UserMessages == {i \in 1..Len(ui.messages) : ui.messages[i].type = "user"}

\* the message at position i is the AI message of a send
IsReplyAt(i) ==
    /\ i <= Len(ui.messages)
    /\ ui.messages[i].type = "ai"
    /\ ui.messages[i].content # "test results"

\* C29: the message list only grows at its end, and no send or tool test
\* starts while isLoading is true; so each accepted send appends exactly one
\* user message and then exactly one AI message with nothing between: there
\* are as many user messages as accepted sends, each followed at once by
\* the reply of its send, the last one only while that send is in progress
C29_EachSendAppendsUserThenReply ==
    /\ Cardinality(UserMessages) = ui.sends
    /\ \A i \in UserMessages :
          IF i = Len(ui.messages) THEN SendInProgress ELSE IsReplyAt(i + 1)

\* a send has ended without a reply: its user message is the last message
SendEndedWithoutReply ==
    /\ ~SendInProgress
    /\ ui.test = "idle"
    /\ Len(ui.messages) \in UserMessages

\* the list is append-only: a step leaves it alone or adds one message at
\* its end
MessagesAppendOnly ==
    [][\/ ui'.messages = ui.messages
       \/ /\ Len(ui'.messages) = Len(ui.messages) + 1
          /\ SubSeq(ui'.messages, 1, Len(ui.messages)) = ui.messages]_vars

\* while isLoading is true no send and no tool test starts
NoStartWhileLoading ==
    [][ui.isLoading => (ui'.sends = ui.sends /\ ui'.tests = ui.tests)]_vars

\* nothing comes between a user message and the reply of its send: whatever
\* follows a user message is that reply, never the results of a tool test
NothingBetweenUserAndReply ==
    \A i \in UserMessages : i < Len(ui.messages) => IsReplyAt(i + 1)

\* a tool test and a send have both run to their end in one session
TestThenSendCompleted ==
    /\ ui.tests = 1 /\ ui.sends = 1
    /\ ~ui.isLoading
    /\ Len(ui.messages) = 4


\* a reply is missing only after generateResponse has thrown
ReplyMissingOnlyAfterThrow ==
    C29_EachSendAppendsUserThenReply \/ ui.send = "thrown"


\* the texts of the MCP branch of generateResponse and of the tool test
MCPPathTexts ==
    {"hint with context", "Error connecting to MCP server", "MCP Analysis Complete",
     "test results"}

\* the AI messages stored with mcpMode = true
MCPModeMessages ==
    {i \in 1..Len(ui.messages) :
        ui.messages[i].type \in {"ai", "AI"} /\ ui.messages[i].mcpMode}

\* C30: every AI message stored with mcpMode = true was produced by the MCP
\* branch of generateResponse or by the MCP tool test; a reply of the
\* context-free branch is never stored with mcpMode = true, for any order
\* of Refresh, toggle and send
C30_MCPModeOnlyOnMCPPath ==
    \A i \in MCPModeMessages : ui.messages[i].content \in MCPPathTexts

\* the email of the context-free branch is in the list with mcpMode = true
ContextFreeEmailStoredAsMCP ==
    \E i \in MCPModeMessages :
        ui.messages[i].content = "AI-Generated Email (No Context)"

\* the flag is the MCPEnabled of the render that sent: a reply is stored
\* with mcpMode = true only by a send made while MCPEnabled was true
MCPModeFollowsToggleAlone ==
    [][\A i \in 1..Len(ui'.messages) :
          (i > Len(ui.messages) /\ ui'.messages[i].type = "ai"
              /\ ui'.messages[i].content # "test results") =>
             ui'.messages[i].mcpMode = ui.closure.MCPEnabled]_vars

\* in page.js no message is ever stored with mcpMode = true
PageJsNeverStoresMCPMode ==
    ui.version = "page.js" => MCPModeMessages = {}

=============================================================================
